---- MODULE Spec2Model ----
(***************************************************************************)
(* Market scan and ranking engine of ffxiv-broker.                         *)
(*                                                                         *)
(* Part 1: the cache store keys of one region that hold the published      *)
(*         RankedAdviceSet, the full-scan job (broker/jobs/refresh.py,     *)
(*         full_scan_advice) and the reader of the published set           *)
(*         (broker/api/routes/advice.py, advice_top).                      *)
(* Part 2: the remote fetch client (broker/clients/universalis.py):        *)
(*         get_item_world, get_items_world, get_marketable_items, over the *)
(*         per-item cache keys (broker/db/cache.py).                       *)
(* Part 3: the scoring engine (broker/services/advisor.py, compute_score)  *)
(*         in exact rational arithmetic, and the fan-out points of the     *)
(*         routes and of the catalog job.                                  *)
(* Part 4: the metrics library (broker/services/metrics.py) and the batch  *)
(*         step of the scan (_process_chunk): fetch, per-item fallback,    *)
(*         metrics, anti-scam filter, score.                               *)
(* Part 5: calls of the window metrics, the trimmed mean, the quantile,    *)
(*         roi and net_profit_unit on histories of sales.                  *)
(* Part 6: refresh_items (broker/jobs/refresh.py) over get_item_world.     *)
(* Part 7: the dashboard overview (broker/api/routes/dashboard.py).        *)
(* Part 8: the cache key construction (broker/db/cache.py, ns) and the key *)
(*         strings the clients, the job and the routes build with it.      *)
(* Part 9: two full_scan_advice runs of one region at the same time.       *)
(***************************************************************************)
EXTENDS Integers, Sequences, FiniteSets, TLC

(***************************************************************************)
(* Bounds of the model.                                                    *)
(***************************************************************************)
MaxRuns == 2
MaxTime == 2

None == "None"
\* Absent values, one per type: a member of a ZSET / HASH key, a string key,
\* the u:marketable key, an integer result, a skipped item.
NoEntry == [score |-> 0 - 1, run |-> 0]
NoStr == [v |-> 0 - 1, run |-> 0]
NoList == [present |-> FALSE, val |-> << >>, exp |-> 0]
NoInt == 0 - 1
Skip == 0 - 1

\* Item identifiers of the scan model, the abstract scores compute_score can
\* give a surviving candidate, and the tradable universes the provider serves.
Items == {1, 2}
Scores == {1, 2}
Universes == {<< >>, <<1, 2>>, <<1, 1>>}
BatchSizes == {1, 2}
StoreTops == {0, 1}
Limits == {1, 2}
SeqJobs == {1}

VARIABLES
  \* ---- cache store, advice keys of the region ----
  scoreLive,   \* adv:{world}:score      ZSET  item -> [score, run] | NoEntry
  dataLive,    \* adv:{world}:data       HASH  item -> [score, run] | NoEntry
  scoreTmp,    \* adv:{world}:score:tmp
  dataTmp,     \* adv:{world}:data:tmp
  tsKey,       \* adv:{world}:ts         NoStr | [v, run]
  countKey,    \* adv:{world}:count      NoStr | [v, run]
  marketable,  \* u:marketable           NoList | [present, val]
  now,         \* time.time()
  \* ---- full_scan_advice, one record of locals per job ----
  pc, ids, batchSize, storeTop, pos, cands, ret,
  tag,         \* number of the run the job is executing (generation)
  nruns,       \* runs started so far
  before,      \* live keys when the job's run started
  failedAt,    \* pc at which the run raised
  \* ---- advice_top ----
  rdPc, rdLimit, rdIds, rdItems, rdTs,
  \* ---- settings and per-item cache keys ----
  cfg,         \* settings: CACHE_TTL_SHORT, CACHE_TTL_LONG, RETRY_MAX
  cache,       \* item -> [l, h]: u:{world}:{item}:listings / :history
  call,        \* the call of the fetch client in progress: its arguments, locals, result
  \* ---- advice settings, scoring, batch step, fan-out ----
  adviceCfg,   \* settings: ADVICE_* weights and thresholds, REQUESTS_RPS
  calc,        \* the call of a pure function in progress: its arguments and result
  fb,          \* fetch of one batch with per-item fallback: caller, chunk, data_list
  runLog,      \* what the run in progress fetched and kept (per run: ids, data, survivors)
  prevLog,     \* runLog of the run before
  fan,         \* a fan-out point: its tasks and its semaphore
  listFetched  \* the identifier list get_marketable_items fetched and stored

storeVars == <<scoreLive, dataLive, scoreTmp, dataTmp, tsKey, countKey, marketable, now>>
jobVars == <<pc, ids, batchSize, storeTop, pos, cands, ret, tag, nruns, before, failedAt>>
rdVars == <<rdPc, rdLimit, rdIds, rdItems, rdTs>>
clientVars == <<cfg, cache, call>>
advVars == <<scoreLive, dataLive, scoreTmp, dataTmp, tsKey, countKey>>
extVars == <<adviceCfg, calc, fb, runLog, prevLog, fan, listFetched>>
vars == <<storeVars, jobVars, rdVars, clientVars, extVars>>

(***************************************************************************)
(* Redis primitives on ZSET / HASH keys.  A key of these types exists iff  *)
(* it has at least one member.                                             *)
(***************************************************************************)
Absent == [i \in Items |-> NoEntry]
Exists(k) == k # Absent
Members(k) == {i \in Items : k[i] # NoEntry}
ZAdd(k, m) == [i \in Items |-> IF m[i] # NoEntry THEN m[i] ELSE k[i]]
HSet(k, m) == [i \in Items |-> IF m[i] # NoEntry THEN m[i] ELSE k[i]]

\* ZREVRANGE key 0 stop: members by score descending, ties by member descending.
ZTop(k, S) == CHOOSE i \in S : \A o \in S :
                 \/ k[i].score > k[o].score
                 \/ (k[i].score = k[o].score /\ i >= o)
RECURSIVE ZRevAll(_, _)
ZRevAll(k, S) == IF S = {} THEN << >>
                 ELSE LET t == ZTop(k, S) IN <<t>> \o ZRevAll(k, S \ {t})
ZRevRange(k, stop) == LET all == ZRevAll(k, Members(k))
                      IN SubSeq(all, 1, IF stop + 1 < Len(all) THEN stop + 1 ELSE Len(all))

Max(a, b) == IF a >= b THEN a ELSE b
Min(a, b) == IF a <= b THEN a ELSE b

(***************************************************************************)
(* full_scan_advice: local computations.                                   *)
(***************************************************************************)
\* candidates.sort(key=score, reverse=True): stable, descending.
RECURSIVE InsertDesc(_, _)
InsertDesc(c, s) == IF s = << >> THEN <<c>>
                    ELSE IF Head(s).score >= c.score THEN <<Head(s)>> \o InsertDesc(c, Tail(s))
                    ELSE <<c>> \o s
RECURSIVE SortDesc(_)
SortDesc(s) == IF s = << >> THEN << >>
               ELSE LET n == Len(s) IN InsertDesc(s[n], SortDesc(SubSeq(s, 1, n - 1)))

\* Mutant of SortTop: the candidates are truncated in accumulation order.
SortTopUnsorted(cs, top) == IF top # 0 /\ Len(cs) > top THEN SubSeq(cs, 1, top) ELSE cs

\* if store_top and len(candidates) > store_top: candidates = candidates[:store_top]
SortTop(cs, top) == LET s == SortDesc(cs)
                    IN IF top # 0 /\ Len(s) > top THEN SubSeq(s, 1, top) ELSE s

\* Mutant of Payload: the stored score depends on the run that stores it.
PayloadDrift(cs, t) == [i \in Items |->
                          LET P == {p \in 1..Len(cs) : cs[p].item_id = i}
                          IN IF P = {} THEN NoEntry
                             ELSE [score |-> cs[CHOOSE p \in P : \A q \in P : q <= p].score + t,
                                   run |-> t]]

\* zmembers[iid] = score / mapping[iid] = json.dumps(c): a later candidate of
\* the same identifier overwrites an earlier one.
LastOf(cs, i) == LET P == {p \in 1..Len(cs) : cs[p].item_id = i}
                 IN IF P = {} THEN 0 ELSE CHOOSE p \in P : \A q \in P : q <= p
Payload(cs, t) == [i \in Items |->
                     IF LastOf(cs, i) = 0 THEN NoEntry
                     ELSE [score |-> cs[LastOf(cs, i)].score, run |-> t]]

Live == <<scoreLive, dataLive, tsKey, countKey>>

ActivePcs == {"load", "delete", "scan", "sort", "zadd", "hset", "exists_score",
              "rename_score", "exists_data", "rename_data", "set_ts", "set_count"}
PreRenamePcs == {"load", "delete", "scan", "sort", "zadd", "hset", "exists_score",
                 "rename_score"}
Active(j) == pc[j] \in ActivePcs
(***************************************************************************)
(* full_scan_advice, one action per await point.                           *)
(***************************************************************************)
\* Entry of full_scan_advice(world, batch_size, store_top).
StartScan(j) ==
  /\ pc[j] \in {"idle", "done", "failed"}
  /\ \A o \in DOMAIN pc : ~Active(o)
  /\ nruns < MaxRuns
  /\ \E bs \in BatchSizes, top \in StoreTops :
       /\ batchSize' = [batchSize EXCEPT ![j] = bs]
       /\ storeTop' = [storeTop EXCEPT ![j] = top]
  /\ nruns' = nruns + 1
  /\ tag' = [tag EXCEPT ![j] = nruns + 1]
  /\ before' = [before EXCEPT ![j] = Live]
  /\ pc' = [pc EXCEPT ![j] = "load"]
  /\ ids' = [ids EXCEPT ![j] = << >>]
  /\ pos' = [pos EXCEPT ![j] = 1]
  /\ cands' = [cands EXCEPT ![j] = << >>]
  /\ ret' = [ret EXCEPT ![j] = NoInt]
  /\ failedAt' = [failedAt EXCEPT ![j] = None]
  /\ UNCHANGED <<storeVars, rdVars, clientVars, extVars>>

\* ids = await get_marketable_items(); if not ids: return 0
\* (cached list when u:marketable is present, else the provider's list, stored).
LoadUniverse(j) ==
  /\ pc[j] = "load"
  /\ \E u \in (IF marketable.present THEN {marketable.val} ELSE Universes) :
       /\ marketable' = [NoList EXCEPT !.present = TRUE, !.val = u]
       /\ ids' = [ids EXCEPT ![j] = IF u = << >> THEN << >> ELSE u]
       /\ batchSize' = [batchSize EXCEPT ![j] = IF u = << >> THEN 1 ELSE @]
       /\ storeTop' = [storeTop EXCEPT ![j] = IF u = << >> THEN 0 ELSE @]
       /\ pc' = [pc EXCEPT ![j] = IF u = << >> THEN "done" ELSE "delete"]
       /\ ret' = [ret EXCEPT ![j] = IF u = << >> THEN 0 ELSE NoInt]
  /\ UNCHANGED <<scoreLive, dataLive, scoreTmp, dataTmp, tsKey, countKey, now>>
  /\ UNCHANGED <<pos, cands, tag, nruns, before, failedAt>>
  /\ UNCHANGED <<rdVars, clientVars, extVars>>

\* Mutant of DeleteTmp: the staging keys are not cleared at the start of a run.
DeleteTmpKeepsStale(j) ==
  /\ pc[j] = "delete"
  /\ pc' = [pc EXCEPT ![j] = "scan"]
  /\ UNCHANGED storeVars
  /\ UNCHANGED <<ids, batchSize, storeTop, pos, cands, ret, tag, nruns, before, failedAt>>
  /\ UNCHANGED <<rdVars, clientVars, extVars>>

\* await r.delete(score_key_tmp, data_key_tmp)
DeleteTmp(j) ==
  /\ pc[j] = "delete"
  /\ scoreTmp' = Absent
  /\ dataTmp' = Absent
  /\ pc' = [pc EXCEPT ![j] = "scan"]
  /\ UNCHANGED <<scoreLive, dataLive, tsKey, countKey, marketable, now>>
  /\ UNCHANGED <<ids, batchSize, storeTop, pos, cands, ret, tag, nruns, before, failedAt>>
  /\ UNCHANGED <<rdVars, clientVars, extVars>>

\* Outcome of one item of a batch: skipped (no data, no listing, no target
\* price, anti-scam filter, exception) or appended with the score compute_score gave.
Outcomes == {Skip} \cup Scores
RECURSIVE Survivors(_, _)
Survivors(chunk, outs) ==
  IF chunk = << >> THEN << >>
  ELSE (IF Head(outs) = Skip THEN << >>
        ELSE << [item_id |-> Head(chunk), score |-> Head(outs)] >>)
       \o Survivors(Tail(chunk), Tail(outs))

\* await _process_chunk(ids[i : i + batch_size])
ProcessChunk(j) ==
  /\ pc[j] = "scan"
  /\ LET n == Len(ids[j])
         last == Min(pos[j] + batchSize[j] - 1, n)
         chunk == SubSeq(ids[j], pos[j], last)
     IN /\ \E outs \in [1..Len(chunk) -> Outcomes] :
             cands' = [cands EXCEPT ![j] = @ \o Survivors(chunk, outs)]
        /\ pos' = [pos EXCEPT ![j] = last + 1]
        /\ pc' = [pc EXCEPT ![j] = IF last + 1 > n THEN "sort" ELSE "scan"]
  /\ UNCHANGED storeVars
  /\ UNCHANGED <<ids, batchSize, storeTop, ret, tag, nruns, before, failedAt>>
  /\ UNCHANGED <<rdVars, clientVars, extVars>>

\* candidates.sort(...); truncate to store_top; if candidates: ...
SortCandidates(j) ==
  /\ pc[j] = "sort"
  /\ LET top == SortTop(cands[j], storeTop[j])
     IN /\ cands' = [cands EXCEPT ![j] = top]
        /\ pc' = [pc EXCEPT ![j] = IF top # << >> THEN "zadd" ELSE "exists_score"]
  /\ UNCHANGED storeVars
  /\ UNCHANGED <<ids, batchSize, storeTop, pos, ret, tag, nruns, before, failedAt>>
  /\ UNCHANGED <<rdVars, clientVars, extVars>>

\* Mutant of ZAddTmp: the score index is written to the live key.
ZAddLive(j) ==
  /\ pc[j] = "zadd"
  /\ scoreLive' = ZAdd(scoreLive, Payload(cands[j], tag[j]))
  /\ pc' = [pc EXCEPT ![j] = "hset"]
  /\ UNCHANGED <<scoreTmp, dataLive, dataTmp, tsKey, countKey, marketable, now>>
  /\ UNCHANGED <<ids, batchSize, storeTop, pos, cands, ret, tag, nruns, before, failedAt>>
  /\ UNCHANGED <<rdVars, clientVars, extVars>>

\* await r.zadd(score_key_tmp, zmembers)
ZAddTmp(j) ==
  /\ pc[j] = "zadd"
  /\ scoreTmp' = ZAdd(scoreTmp, Payload(cands[j], tag[j]))
  /\ pc' = [pc EXCEPT ![j] = "hset"]
  /\ UNCHANGED <<scoreLive, dataLive, dataTmp, tsKey, countKey, marketable, now>>
  /\ UNCHANGED <<ids, batchSize, storeTop, pos, cands, ret, tag, nruns, before, failedAt>>
  /\ UNCHANGED <<rdVars, clientVars, extVars>>

\* await r.hset(data_key_tmp, mapping=mapping)
HSetTmp(j) ==
  /\ pc[j] = "hset"
  /\ dataTmp' = HSet(dataTmp, Payload(cands[j], tag[j]))
  /\ pc' = [pc EXCEPT ![j] = "exists_score"]
  /\ UNCHANGED <<scoreLive, dataLive, scoreTmp, tsKey, countKey, marketable, now>>
  /\ UNCHANGED <<ids, batchSize, storeTop, pos, cands, ret, tag, nruns, before, failedAt>>
  /\ UNCHANGED <<rdVars, clientVars, extVars>>

\* ... if await r.exists(score_key_tmp) else None
ExistsScoreTmp(j) ==
  /\ pc[j] = "exists_score"
  /\ pc' = [pc EXCEPT ![j] = IF Exists(scoreTmp) THEN "rename_score" ELSE "exists_data"]
  /\ UNCHANGED storeVars
  /\ UNCHANGED <<ids, batchSize, storeTop, pos, cands, ret, tag, nruns, before, failedAt>>
  /\ UNCHANGED <<rdVars, clientVars, extVars>>

\* await r.rename(score_key_tmp, score_key); RENAME of a missing key is an error.
RenameScore(j) ==
  /\ pc[j] = "rename_score"
  /\ IF Exists(scoreTmp)
     THEN /\ scoreLive' = scoreTmp
          /\ scoreTmp' = Absent
          /\ pc' = [pc EXCEPT ![j] = "exists_data"]
          /\ UNCHANGED failedAt
     ELSE /\ pc' = [pc EXCEPT ![j] = "failed"]
          /\ failedAt' = [failedAt EXCEPT ![j] = "rename_score"]
          /\ UNCHANGED <<scoreLive, scoreTmp>>
  /\ UNCHANGED <<dataLive, dataTmp, tsKey, countKey, marketable, now>>
  /\ UNCHANGED <<ids, batchSize, storeTop, pos, cands, ret, tag, nruns, before>>
  /\ UNCHANGED <<rdVars, clientVars, extVars>>

\* ... if await r.exists(data_key_tmp) else None
ExistsDataTmp(j) ==
  /\ pc[j] = "exists_data"
  /\ pc' = [pc EXCEPT ![j] = IF Exists(dataTmp) THEN "rename_data" ELSE "set_ts"]
  /\ UNCHANGED storeVars
  /\ UNCHANGED <<ids, batchSize, storeTop, pos, cands, ret, tag, nruns, before, failedAt>>
  /\ UNCHANGED <<rdVars, clientVars, extVars>>

\* await r.rename(data_key_tmp, data_key)
RenameData(j) ==
  /\ pc[j] = "rename_data"
  /\ IF Exists(dataTmp)
     THEN /\ dataLive' = dataTmp
          /\ dataTmp' = Absent
          /\ pc' = [pc EXCEPT ![j] = "set_ts"]
          /\ UNCHANGED failedAt
     ELSE /\ pc' = [pc EXCEPT ![j] = "failed"]
          /\ failedAt' = [failedAt EXCEPT ![j] = "rename_data"]
          /\ UNCHANGED <<dataLive, dataTmp>>
  /\ UNCHANGED <<scoreLive, scoreTmp, tsKey, countKey, marketable, now>>
  /\ UNCHANGED <<ids, batchSize, storeTop, pos, cands, ret, tag, nruns, before>>
  /\ UNCHANGED <<rdVars, clientVars, extVars>>

\* await r.set(ts_key, str(int(time.time())))
SetTs(j) ==
  /\ pc[j] = "set_ts"
  /\ tsKey' = [v |-> now, run |-> tag[j]]
  /\ pc' = [pc EXCEPT ![j] = "set_count"]
  /\ UNCHANGED <<scoreLive, dataLive, scoreTmp, dataTmp, countKey, marketable, now>>
  /\ UNCHANGED <<ids, batchSize, storeTop, pos, cands, ret, tag, nruns, before, failedAt>>
  /\ UNCHANGED <<rdVars, clientVars, extVars>>

\* await r.set(count_key, str(len(ids))); return len(candidates)
SetCount(j) ==
  /\ pc[j] = "set_count"
  /\ countKey' = [v |-> Len(ids[j]), run |-> tag[j]]
  /\ ret' = [ret EXCEPT ![j] = Len(cands[j])]
  /\ pc' = [pc EXCEPT ![j] = "done"]
  /\ ids' = [ids EXCEPT ![j] = << >>]
  /\ batchSize' = [batchSize EXCEPT ![j] = 1]
  /\ storeTop' = [storeTop EXCEPT ![j] = 0]
  /\ pos' = [pos EXCEPT ![j] = 1]
  /\ cands' = [cands EXCEPT ![j] = << >>]
  /\ UNCHANGED <<scoreLive, dataLive, scoreTmp, dataTmp, tsKey, marketable, now>>
  /\ UNCHANGED <<tag, nruns, before, failedAt>>
  /\ UNCHANGED <<rdVars, clientVars, extVars>>

\* The run raises at its current await (store unreachable, provider failure
\* while loading the universe) or its process is killed there.
Crash(j) ==
  /\ Active(j)
  /\ pc' = [pc EXCEPT ![j] = "failed"]
  /\ failedAt' = [failedAt EXCEPT ![j] = pc[j]]
  /\ ids' = [ids EXCEPT ![j] = << >>]
  /\ batchSize' = [batchSize EXCEPT ![j] = 1]
  /\ storeTop' = [storeTop EXCEPT ![j] = 0]
  /\ pos' = [pos EXCEPT ![j] = 1]
  /\ cands' = [cands EXCEPT ![j] = << >>]
  /\ UNCHANGED storeVars
  /\ UNCHANGED <<ret, tag, nruns, before>>
  /\ UNCHANGED <<rdVars, clientVars, extVars>>

(***************************************************************************)
(* advice_top(world, limit): one action per await point.                   *)
(***************************************************************************)
Entries(k, s) == [p \in 1..Len(s) |->
                    [item_id |-> s[p], score |-> k[s[p]].score, run |-> k[s[p]].run]]
RECURSIVE DropNone(_)
DropNone(s) == IF s = << >> THEN << >>
               ELSE (IF Head(s).run = 0 THEN << >> ELSE <<Head(s)>>) \o DropNone(Tail(s))

\* json.dumps(c) of a candidate: "name": None in every published entry.
NoName == "None"
NameOutcomes == {"None", "name"}
Unnamed(s) == [p \in 1..Len(s) |->
                 [item_id |-> s[p].item_id, score |-> s[p].score, run |-> s[p].run,
                  name |-> NoName]]

\* ids = await r.zrevrange(score_key, 0, max(0, limit - 1)); if not ids: return empty
ReadScore ==
  /\ rdPc = "idle"
  /\ \E limit \in Limits :
       /\ rdLimit' = limit
       /\ rdIds' = Entries(scoreLive, ZRevRange(scoreLive, Max(0, limit - 1)))
  /\ rdPc' = IF rdIds' = << >> THEN "done" ELSE "hmget"
  /\ rdItems' = << >>
  /\ rdTs' = NoStr
  /\ UNCHANGED <<storeVars, jobVars, clientVars, extVars>>

\* vals = await r.hmget(data_key, ids); items = the values that decode to objects
ReadData ==
  /\ rdPc = "hmget"
  /\ rdItems' = Unnamed(DropNone(Entries(dataLive, [p \in 1..Len(rdIds) |-> rdIds[p].item_id])))
  /\ rdPc' = "names"
  /\ UNCHANGED <<rdLimit, rdIds, rdTs>>
  /\ UNCHANGED <<storeVars, jobVars, clientVars, extVars>>

\* for it in items: if not it.get("name"): try: it["name"] = await get_item_name(..)
\* except Exception: pass.  Each lookup gives a name, gives None, or raises.
ReadNames ==
  /\ rdPc = "names"
  /\ \E found \in [1..Len(rdItems) -> NameOutcomes] :
       rdItems' = [p \in 1..Len(rdItems) |->
                     IF rdItems[p].name = NoName
                     THEN [rdItems[p] EXCEPT !.name = found[p]]
                     ELSE rdItems[p]]
  /\ rdPc' = "get_ts"
  /\ UNCHANGED <<rdLimit, rdIds, rdTs>>
  /\ UNCHANGED <<storeVars, jobVars, clientVars, extVars>>

\* ts = await r.get(ts_key); return items[:limit]
ReadTs ==
  /\ rdPc = "get_ts"
  /\ rdTs' = tsKey
  /\ rdItems' = SubSeq(rdItems, 1, Min(rdLimit, Len(rdItems)))
  /\ rdPc' = "done"
  /\ UNCHANGED <<rdLimit, rdIds>>
  /\ UNCHANGED <<storeVars, jobVars, clientVars, extVars>>

ReaderReturn ==
  /\ rdPc = "done"
  /\ rdPc' = "idle"
  /\ rdLimit' = 0
  /\ rdIds' = << >>
  /\ rdItems' = << >>
  /\ rdTs' = NoStr
  /\ UNCHANGED <<storeVars, jobVars, clientVars, extVars>>

(***************************************************************************)
(* Settings (broker/config.py) and the JSON cache (broker/db/cache.py).    *)
(***************************************************************************)
\* Settings accepts every CACHE_TTL_SHORT >= 0, CACHE_TTL_LONG >= 0, RETRY_MAX >= 0.
Configs == {[CACHE_TTL_SHORT |-> 1, CACHE_TTL_LONG |-> 2, RETRY_MAX |-> 2],
            [CACHE_TTL_SHORT |-> 0, CACHE_TTL_LONG |-> 1, RETRY_MAX |-> 0],
            [CACHE_TTL_SHORT |-> 2, CACHE_TTL_LONG |-> 1, RETRY_MAX |-> 1]}
DefaultCfg == [CACHE_TTL_SHORT |-> 600, CACHE_TTL_LONG |-> 43200, RETRY_MAX |-> 3]

\* A listings or history blob: 0 is the empty list, 1 and 2 two non-empty lists.
NoVal == 0 - 1
EmptySnap == [listings |-> 0, recentHistory |-> 0]
NoSnap == [listings |-> NoVal, recentHistory |-> NoVal]
Snaps == {[listings |-> 1, recentHistory |-> 1], [listings |-> 2, recentHistory |-> 0]}

\* What the provider answers for one item: the fields may be missing (empty).
ItemSnaps == {[listings |-> 1, recentHistory |-> 1], [listings |-> 2, recentHistory |-> 0], EmptySnap}

\* A string key: its value and the time it expires at (NoExpiry: never).
NoExpiry == 0
NoCell == [val |-> NoVal, exp |-> NoExpiry]
NoTtl == 0

\* get_json: None when the key is absent.
GetJson(cell) == cell.val

\* set_json: SET key data EX ttl if ttl and ttl > 0, else SET key data.
SetJson(v, ttl) == [val |-> v, exp |-> IF ttl # NoTtl /\ ttl > 0 THEN now + ttl ELSE NoExpiry]

\* Redis drops a key once its expiry time is reached.
Expire(cell, t) == IF cell.exp # NoExpiry /\ cell.exp <= t THEN NoCell ELSE cell

(***************************************************************************)
(* Retry policy (_retryer).                                                *)
(***************************************************************************)
RetryableErrors == {"ReadTimeout", "ConnectTimeout", "HTTPStatusError"}
ProviderErrors == RetryableErrors \cup {"ConnectError", "JSONDecodeError"}

\* Mutant of StopAfterAttempt: the stop condition allows one attempt more.
StopAfterAttemptLate(n, max) == n > max

\* stop_after_attempt(RETRY_MAX)
StopAfterAttempt(n, max) == n >= max

\* After a failed attempt number n: retry only the listed exception types, and
\* only while the stop condition does not hold; reraise otherwise.
AfterFailure(e, n) ==
  IF e \in RetryableErrors /\ ~StopAfterAttempt(n, cfg.RETRY_MAX) THEN "retry" ELSE "raise"

(***************************************************************************)
(* The call in progress.                                                   *)
(***************************************************************************)
IdleCall ==
  [op |-> "none", pc |-> "idle", item |-> 0, ids |-> << >>, attempt |-> 0, grp |-> 0,
   groups |-> << >>, reqs |-> << >>, cl |-> NoVal, ch |-> NoVal, status |-> "none", err |-> "none",
   snap |-> NoSnap, out |-> << >>, idsRes |-> << >>,
   retriedOn |-> {},        \* the failures that were followed by another attempt
   fetched |-> NoSnap,      \* snapshot the provider answered to get_item_world
   expect |-> << >>,        \* per position of ids: snapshot the provider served for it
   readFailed |-> FALSE,    \* a cache read failed (store unavailable)
   writeFailed |-> FALSE]   \* a cache write failed (store unavailable)

Raise(c, e) == [c EXCEPT !.pc = "done", !.status = "raise", !.err = e]

(***************************************************************************)
(* get_item_world(item_id, world)                                          *)
(***************************************************************************)
CallGetItemWorld ==
  /\ call.op = "none"
  /\ \E i \in Items : call' = [IdleCall EXCEPT !.op = "get_item_world", !.pc = "read", !.item = i]
  /\ UNCHANGED <<cfg, cache, storeVars, jobVars, rdVars, extVars>>

\* cached_listings = await get_json(...); cached_history = await get_json(...);
\* both not None: return the cached pair.  A read raises when the store is down.
ItemRead ==
  /\ call.op = "get_item_world" /\ call.pc = "read"
  /\ \E up \in BOOLEAN :
       IF ~up
       THEN call' = [Raise(call, "CacheError") EXCEPT !.readFailed = TRUE]
       ELSE LET l == GetJson(cache[call.item].l)
                h == GetJson(cache[call.item].h)
            IN IF l # NoVal /\ h # NoVal
               THEN call' = [call EXCEPT !.cl = l, !.ch = h, !.pc = "done", !.status = "ok",
                                         !.snap = [listings |-> l, recentHistory |-> h]]
               ELSE call' = [call EXCEPT !.cl = l, !.ch = h, !.pc = "attempt", !.attempt = 1]
  /\ UNCHANGED <<cfg, cache, storeVars, jobVars, rdVars, extVars>>

\* Mutant of ItemStore: history is stored under the listings TTL and vice versa.
ItemStoreSwappedTtl(cell, snap, w) ==
  [l |-> IF w = "fail_l" THEN cell.l ELSE SetJson(snap.listings, cfg.CACHE_TTL_LONG),
   h |-> IF w = "ok" THEN SetJson(snap.recentHistory, cfg.CACHE_TTL_SHORT) ELSE cell.h]

\* The two set_json calls of an attempt; w tells which of them, if any, finds
\* the store down (the first failure raises, so the second is not reached).
ItemStore(cell, snap, w) ==
  [l |-> IF w = "fail_l" THEN cell.l ELSE SetJson(snap.listings, cfg.CACHE_TTL_SHORT),
   h |-> IF w = "ok" THEN SetJson(snap.recentHistory, cfg.CACHE_TTL_LONG) ELSE cell.h]

\* One attempt: GET /v2/{world}/{item_id}, raise_for_status, json, the two
\* set_json calls, return.  All of it is inside the retried block.
ItemAttempt ==
  /\ call.op = "get_item_world" /\ call.pc = "attempt"
  /\ LET c == [call EXCEPT !.reqs = Append(@, <<call.item>>)]
     IN \/ \E e \in ProviderErrors :
             /\ call' = IF AfterFailure(e, c.attempt) = "retry"
                        THEN [c EXCEPT !.attempt = @ + 1, !.retriedOn = @ \cup {e}]
                        ELSE Raise(c, e)
             /\ UNCHANGED cache
        \/ \E snap \in ItemSnaps, w \in {"ok", "fail_l", "fail_h"} :
             /\ cache' = [cache EXCEPT ![c.item] = ItemStore(@, snap, w)]
             /\ call' = IF w = "ok"
                        THEN [c EXCEPT !.fetched = snap, !.pc = "done", !.status = "ok",
                                       !.snap = snap]
                        ELSE [Raise(c, "CacheError") EXCEPT !.fetched = snap,
                                                            !.writeFailed = TRUE]
  /\ UNCHANGED <<cfg, storeVars, jobVars, rdVars, extVars>>

(***************************************************************************)
(* get_items_world(item_ids, world)                                        *)
(***************************************************************************)
MaxPerReq == 100

\* Mutant of TakeChunk: a chunk is yielded once it is longer than size.
TakeChunkOffByOne(seq, size) == SubSeq(seq, 1, Min(Max(size + 1, 1), Len(seq)))

\* _chunks(seq, size), one chunk: the buffer takes elements until it holds
\* size of them (at least one) or the input ends.
TakeChunk(seq, size) == SubSeq(seq, 1, Min(Max(size, 1), Len(seq)))

\* _chunks(seq, size): the chunks in the order they are yielded.
RECURSIVE Chunks(_, _)
Chunks(seq, size) ==
  IF seq = << >> THEN << >>
  ELSE LET b == TakeChunk(seq, size)
       IN <<b>> \o Chunks(SubSeq(seq, Len(b) + 1, Len(seq)), size)

\* order = {iid: idx for idx, iid in enumerate(item_ids)}: the last index wins.
\* 0: the identifier is not in order.
OrderOf(idl, x) == LET P == {p \in 1..Len(idl) : idl[p] = x}
                   IN IF P = {} THEN 0 ELSE CHOOSE p \in P : \A q \in P : q <= p

\* An entry of a multi-item response.  A field that is Missing is not present;
\* key is the key of the entry in the items mapping (Missing: not an integer,
\* or the items value is a list); obj tells whether the entry is a JSON object;
\* for is the identifier the provider serves the entry for (Missing: none).
Missing == 0 - 1
ForeignIds == {3}
JunkSnap == [listings |-> 1, recentHistory |-> 1]
\* Shape of the payload and the field the identifier of an entry is under.
Formats == {<<"list", "itemID">>, <<"list", "itemId">>, <<"list", "item_id">>,
            <<"list", "zero_item">>, <<"dict", "keyonly">>, <<"dict", "itemID">>,
            <<"object", "itemID">>, <<"other", "itemID">>}
PlainFormats == {<<"list", "itemID">>}
\* What the provider serves for an identifier: a snapshot, or nothing.
ServedSnaps == {[listings |-> 1, recentHistory |-> 1], [listings |-> 2, recentHistory |-> 0], NoSnap}
PlainSnaps == {[listings |-> 1, recentHistory |-> 1]}
Junks == {"none", "noid_front", "foreign_back", "nonobj_front", "nonobj_back"}

BaseEntry(k, x, snap) ==
  [key |-> k, itemID |-> Missing, itemId |-> Missing, item_id |-> Missing,
   item |-> Missing, obj |-> TRUE, snap |-> snap, for |-> x]
EntryFor(x, snap, tmpl, shape) ==
  LET b == BaseEntry(IF shape = "dict" THEN x ELSE Missing, x, snap)
  IN CASE tmpl = "itemID" -> [b EXCEPT !.itemID = x]
       [] tmpl = "itemId" -> [b EXCEPT !.itemId = x]
       [] tmpl = "item_id" -> [b EXCEPT !.item_id = x]
       [] tmpl = "zero_item" -> [b EXCEPT !.itemID = 0, !.item = x]
       [] tmpl = "keyonly" -> IF shape = "dict" THEN b ELSE [b EXCEPT !.itemID = x]
JunkEntries(junk, shape) ==
  LET f == CHOOSE x \in ForeignIds : TRUE
  IN CASE junk = "none" -> << >>
       [] junk = "noid_front" -> << BaseEntry(Missing, Missing, JunkSnap) >>
       [] junk = "foreign_back" ->
            << [BaseEntry(IF shape = "dict" THEN f ELSE Missing, Missing, JunkSnap)
                  EXCEPT !.itemID = f] >>
       [] OTHER ->
            << [BaseEntry(IF shape = "dict" THEN f ELSE Missing, Missing, JunkSnap)
                  EXCEPT !.obj = FALSE] >>

RECURSIVE SeqOfSet(_, _)
SeqOfSet(S, rev) ==
  IF S = {} THEN << >>
  ELSE LET x == IF rev THEN CHOOSE a \in S : \A b \in S : a >= b
                ELSE CHOOSE a \in S : \A b \in S : a <= b
       IN <<x>> \o SeqOfSet(S \ {x}, rev)

\* The payload the provider answers: the entries of the identifiers it serves,
\* in ascending or descending order, with at most one entry that is unusable.
Response(shape, serve, rev, tmpl, junk) ==
  LET sv == SeqOfSet({x \in DOMAIN serve : serve[x] # NoSnap}, rev)
      es == [p \in 1..Len(sv) |-> EntryFor(sv[p], serve[sv[p]], tmpl, shape)]
      js == JunkEntries(junk, shape)
  IN CASE shape = "other" -> << >>
       [] shape = "object" ->
            IF es = << >> THEN << BaseEntry(Missing, Missing, JunkSnap) >> ELSE << es[1] >>
       [] OTHER ->
            IF junk \in {"noid_front", "nonobj_front"} THEN js \o es ELSE es \o js

\* items_list of the payload: the values of an items mapping that are objects,
\* with itemID taken from the key when the value has none; an items list as it
\* is; the payload itself when it has no items mapping or list.
RECURSIVE FromMapping(_)
FromMapping(resp) ==
  IF resp = << >> THEN << >>
  ELSE LET v == Head(resp)
       IN (IF ~v.obj THEN << >>
           ELSE IF v.key # Missing /\ v.itemID = Missing THEN << [v EXCEPT !.itemID = v.key] >>
           ELSE << v >>) \o FromMapping(Tail(resp))
ItemsList(shape, resp) ==
  CASE shape = "dict" -> FromMapping(resp)
    [] shape = "list" -> resp
    [] shape = "object" -> resp
    [] OTHER -> << >>

\* item.get("itemID") or item.get("itemId") or item.get("item_id") or item.get("item")
Truthy(v) == v # Missing /\ v # 0
RecoverId(it) ==
  IF Truthy(it.itemID) THEN it.itemID
  ELSE IF Truthy(it.itemId) THEN it.itemId
  ELSE IF Truthy(it.item_id) THEN it.item_id
  ELSE it.item

\* Mutant of ProcessItems: only the listings key of an entry is written.
RECURSIVE ProcessItemsNoHistory(_, _, _, _)
ProcessItemsNoHistory(items, idl, st, wf) ==
  IF items = << >> THEN st
  ELSE LET it == Head(items)
       IN IF ~it.obj THEN [st EXCEPT !.err = "AttributeError"]
          ELSE LET iid == RecoverId(it)
                   idx == IF iid = Missing THEN 0 ELSE OrderOf(idl, iid)
               IN IF idx = 0 THEN ProcessItemsNoHistory(Tail(items), idl, st, wf)
                  ELSE ProcessItemsNoHistory(Tail(items), idl,
                         [cache |-> IF iid \in wf THEN st.cache
                                    ELSE [st.cache EXCEPT ![iid].l =
                                            SetJson(it.snap.listings, cfg.CACHE_TTL_SHORT)],
                          out |-> [st.out EXCEPT ![idx] = it.snap],
                          err |-> st.err,
                          wfail |-> st.wfail \/ iid \in wf],
                         wf)

\* The loop over items_list: st is [cache, out, err, wfail]; wf are the
\* identifiers whose cache writes find the store down.
RECURSIVE ProcessItems(_, _, _, _)
ProcessItems(items, idl, st, wf) ==
  IF items = << >> THEN st
  ELSE LET it == Head(items)
       IN IF ~it.obj THEN [st EXCEPT !.err = "AttributeError"]
          ELSE LET iid == RecoverId(it)
                   idx == IF iid = Missing THEN 0 ELSE OrderOf(idl, iid)
               IN IF idx = 0 THEN ProcessItems(Tail(items), idl, st, wf)
                  ELSE ProcessItems(Tail(items), idl,
                         [cache |-> IF iid \in wf THEN st.cache
                                    ELSE [st.cache EXCEPT ![iid] =
                                            [l |-> SetJson(it.snap.listings, cfg.CACHE_TTL_SHORT),
                                             h |-> SetJson(it.snap.recentHistory, cfg.CACHE_TTL_LONG)]],
                          out |-> [st.out EXCEPT ![idx] = it.snap],
                          err |-> st.err,
                          wfail |-> st.wfail \/ iid \in wf],
                         wf)

\* The identifier lists get_items_world is called with: short ones, and long
\* ones that cycle through Items.
Cycle(n) == [p \in 1..n |-> ((p - 1) % Cardinality(Items)) + 1]
LongLens == {1, 99, 100, 101, 200, 201, 205}
ShortLists == {<< >>, <<1>>, <<2, 1>>, <<1, 1>>}
LongLists == {Cycle(n) : n \in LongLens}

Range(f) == {f[x] : x \in DOMAIN f}

CallGetItemsWorld(lists) ==
  /\ call.op = "none"
  /\ \E idl \in lists :
       call' = IF idl = << >>
               THEN [IdleCall EXCEPT !.op = "get_items_world", !.pc = "done", !.status = "ok"]
               ELSE [IdleCall EXCEPT !.op = "get_items_world", !.pc = "attempt", !.ids = idl,
                                     !.groups = Chunks(idl, MaxPerReq),
                                     !.grp = 1, !.attempt = 1,
                                     !.out = [p \in 1..Len(idl) |-> EmptySnap],
                                     !.expect = [p \in 1..Len(idl) |-> NoSnap]]
  /\ UNCHANGED <<cfg, cache, storeVars, jobVars, rdVars, extVars>>

\* One attempt for the current chunk: GET /v2/{world}/{ids_csv}, raise_for_status,
\* json, normalisation, and the loop over the entries with its cache writes.
ItemsAttempt(formats, junks, snaps) ==
  /\ call.op = "get_items_world" /\ call.pc = "attempt"
  /\ LET group == call.groups[call.grp]
         first == (call.grp - 1) * MaxPerReq
         last == first + Len(group)
         sentReqs == Append(call.reqs, group)
     IN \/ \E e \in ProviderErrors :
             /\ call' = IF AfterFailure(e, call.attempt) = "retry"
                        THEN [call EXCEPT !.reqs = sentReqs, !.attempt = @ + 1,
                                          !.retriedOn = @ \cup {e}]
                        ELSE [Raise(call, e) EXCEPT !.reqs = sentReqs]
             /\ UNCHANGED cache
        \/ \E serve \in [Range(group) -> snaps], fmt \in formats,
              rev \in BOOLEAN, junk \in junks, wf \in {{}, Range(group)} :
             LET resp == Response(fmt[1], serve, rev, fmt[2], junk)
                 st == ProcessItems(ItemsList(fmt[1], resp), call.ids,
                                    [cache |-> cache, out |-> call.out, err |-> "none",
                                     wfail |-> FALSE], wf)
                 sent == {resp[p].for : p \in 1..Len(resp)}
                 c2 == [call EXCEPT
                          !.reqs = sentReqs,
                          !.out = st.out,
                          !.writeFailed = @ \/ st.wfail,
                          !.expect = [p \in 1..Len(call.ids) |->
                                        IF p > first /\ p <= last /\ call.ids[p] \in sent
                                        THEN serve[call.ids[p]] ELSE @[p]]]
             IN /\ cache' = st.cache
                /\ call' = IF st.err # "none" THEN Raise(c2, st.err)
                           ELSE IF call.grp = Len(call.groups)
                           THEN [c2 EXCEPT !.pc = "done", !.status = "ok"]
                           ELSE [c2 EXCEPT !.grp = @ + 1, !.attempt = 1]
  /\ UNCHANGED <<cfg, storeVars, jobVars, rdVars, extVars>>

(***************************************************************************)
(* get_marketable_items()                                                  *)
(***************************************************************************)
\* Mutant of MarketStore: the list is stored under CACHE_TTL_SHORT.
MarketStoreWithTtl(l) == [present |-> TRUE, val |-> l, exp |-> SetJson(l, cfg.CACHE_TTL_SHORT).exp]

\* await set_json(key, ids, ttl=None)
MarketStore(l) == [present |-> TRUE, val |-> l, exp |-> SetJson(l, NoTtl).exp]

\* The list that was fetched and stored, when, and whether the payload it
\* was taken from was a list.
NotFetched == [present |-> FALSE, val |-> << >>, at |-> 0, payload |-> "none"]

CallGetMarketable ==
  /\ call.op = "none"
  /\ call' = [IdleCall EXCEPT !.op = "get_marketable_items", !.pc = "read"]
  /\ UNCHANGED <<cfg, cache, storeVars, jobVars, rdVars, extVars>>

\* Mutant of MarketRead: an empty cached list counts as a miss.
MarketReadEmptyIsMiss ==
  /\ call.op = "get_marketable_items" /\ call.pc = "read"
  /\ \E up \in BOOLEAN :
       call' = IF ~up THEN [Raise(call, "CacheError") EXCEPT !.readFailed = TRUE]
               ELSE IF marketable.present /\ marketable.val # << >>
               THEN [call EXCEPT !.pc = "done", !.status = "ok", !.idsRes = marketable.val]
               ELSE [call EXCEPT !.pc = "attempt", !.attempt = 1]
  /\ UNCHANGED <<cfg, cache, storeVars, jobVars, rdVars, extVars>>

\* cached = await get_json(key); if cached is not None: return its integers
MarketRead ==
  /\ call.op = "get_marketable_items" /\ call.pc = "read"
  /\ \E up \in BOOLEAN :
       call' = IF ~up THEN [Raise(call, "CacheError") EXCEPT !.readFailed = TRUE]
               ELSE IF marketable.present
               THEN [call EXCEPT !.pc = "done", !.status = "ok", !.idsRes = marketable.val]
               ELSE [call EXCEPT !.pc = "attempt", !.attempt = 1]
  /\ UNCHANGED <<cfg, cache, storeVars, jobVars, rdVars, extVars>>

\* One attempt: GET /marketable, raise_for_status, json; ids is the list, or
\* [] when the payload is not a list; set_json(key, ids, ttl=None); return ids.
MarketAttempt ==
  /\ call.op = "get_marketable_items" /\ call.pc = "attempt"
  /\ LET c == [call EXCEPT !.reqs = Append(@, << >>)]
     IN \/ \E e \in ProviderErrors :
             /\ call' = IF AfterFailure(e, c.attempt) = "retry"
                        THEN [c EXCEPT !.attempt = @ + 1, !.retriedOn = @ \cup {e}]
                        ELSE Raise(c, e)
             /\ UNCHANGED <<marketable, listFetched>>
        \/ \E u \in Universes, isList \in BOOLEAN, up \in BOOLEAN :
             LET l == IF isList THEN u ELSE << >>
             IN IF up
                THEN /\ marketable' = MarketStore(l)
                     /\ listFetched' = [present |-> TRUE, val |-> l, at |-> now,
                                          payload |-> IF isList THEN "list" ELSE "other"]
                     /\ call' = [c EXCEPT !.pc = "done", !.status = "ok", !.idsRes = l]
                ELSE /\ UNCHANGED <<marketable, listFetched>>
                     /\ call' = [Raise(c, "CacheError") EXCEPT !.writeFailed = TRUE]
  /\ UNCHANGED <<cfg, cache, advVars, now, jobVars, rdVars>>
  /\ UNCHANGED <<adviceCfg, calc, fb, runLog, prevLog, fan>>

\* The call returns or raises to its caller.
CallReturn ==
  /\ call.pc = "done"
  /\ call' = IdleCall
  /\ UNCHANGED <<cfg, cache, storeVars, jobVars, rdVars, extVars>>

\* A second passes; keys whose expiry time is reached are dropped.
Tick ==
  /\ now < MaxTime
  /\ call.pc # "done"
  /\ now' = now + 1
  /\ cache' = [i \in Items |-> [l |-> Expire(cache[i].l, now + 1),
                                h |-> Expire(cache[i].h, now + 1)]]
  /\ marketable' = IF marketable.exp # NoExpiry /\ marketable.exp <= now + 1
                   THEN NoList ELSE marketable
  /\ UNCHANGED <<cfg, call, advVars, jobVars, rdVars, extVars>>

InitClient ==
  /\ cache = [i \in Items |-> [l |-> NoCell, h |-> NoCell]]
  /\ call = IdleCall

(***************************************************************************)
(* Part 3: float arithmetic, the advice settings (broker/config.py) and    *)
(* the scoring engine (broker/services/advisor.py).  A float is modelled   *)
(* by the exact rational it stands for, in lowest terms.                   *)
(***************************************************************************)
Abs(x) == IF x < 0 THEN 0 - x ELSE x
RECURSIVE GCD(_, _)
GCD(a, b) == IF b = 0 THEN a ELSE GCD(b, a % b)
Rat(n, d) == LET g == GCD(Abs(n), Abs(d))
                 sgn == IF d < 0 THEN 0 - 1 ELSE 1
             IN [n |-> (sgn * n) \div g, d |-> (sgn * d) \div g]
RInt(k) == [n |-> k, d |-> 1]
Zero == RInt(0)
One == RInt(1)
RAdd(a, b) == Rat(a.n * b.d + b.n * a.d, a.d * b.d)
RSub(a, b) == Rat(a.n * b.d - b.n * a.d, a.d * b.d)
RMul(a, b) == Rat(a.n * b.n, a.d * b.d)
RDiv(a, b) == Rat(a.n * b.d, a.d * b.n)
RLt(a, b) == a.n * b.d < b.n * a.d
RLe(a, b) == a.n * b.d <= b.n * a.d
RMax(a, b) == IF RLt(a, b) THEN b ELSE a
RMin(a, b) == IF RLt(b, a) THEN b ELSE a

\* Settings: the advice fields with their defaults, and REQUESTS_RPS.
DefaultAdvice ==
  [ADVICE_W_ROI |-> Rat(7, 10), ADVICE_W_SPD |-> Rat(5, 10), ADVICE_W_PPD |-> Rat(4, 10),
   ADVICE_SPD_NORM |-> RInt(10), ADVICE_PPD_NORM |-> RInt(50000),
   ADVICE_PENALTY_SATURO |-> Rat(2, 10), ADVICE_PENALTY_INSTABILE |-> Rat(2, 10),
   ADVICE_PENALTY_COMP |-> Rat(1, 10),
   ADVICE_RISK_LOW |-> Rat(3, 10), ADVICE_RISK_MED |-> Rat(6, 10),
   ADVICE_SATURATION_MULT |-> RInt(5), FLIP_THRESHOLD |-> Rat(7, 10),
   ADVICE_SUSPECT_ROI |-> RInt(10), ADVICE_SUSPECT_CV |-> Rat(3, 2),
   ADVICE_SUSPECT_ABS_PROFIT |-> 200000, ADVICE_MIN_SALES_SAFE |-> 5,
   REQUESTS_RPS |-> 20]

\* Another configuration Settings accepts: heavier penalties, other weights and
\* norms, and ADVICE_RISK_LOW above ADVICE_RISK_MED.
OtherAdvice ==
  [DefaultAdvice EXCEPT !.ADVICE_W_ROI = RInt(1), !.ADVICE_W_SPD = Zero,
                        !.ADVICE_W_PPD = Rat(1, 4), !.ADVICE_SPD_NORM = RInt(4),
                        !.ADVICE_PPD_NORM = RInt(1000),
                        !.ADVICE_PENALTY_SATURO = Rat(1, 2),
                        !.ADVICE_PENALTY_INSTABILE = Zero,
                        !.ADVICE_PENALTY_COMP = One,
                        !.ADVICE_RISK_LOW = Rat(1, 2), !.ADVICE_RISK_MED = Rat(1, 4),
                        !.REQUESTS_RPS = 2]

\* The settings as the advisor module sees them: RISK_LOW and RISK_MED are read
\* from the settings once, when the module is imported.
Loaded(s) == s @@ [RISK_LOW |-> s.ADVICE_RISK_LOW, RISK_MED |-> s.ADVICE_RISK_MED]
AdviceSettings == {Loaded(DefaultAdvice), Loaded(OtherAdvice)}

\* max(0.0, min(1.0, x))
Clamp01(x) == RMax(Zero, RMin(One, x))

\* Mutant of ScoreOf: the weighted sum is not floored at 0.
ScoreOfNoFloor(roi_value, sales_per_day, flags, profit_per_day, competition_count) ==
  LET st == adviceCfg
      norm_roi == Clamp01(RDiv(RAdd(roi_value, Rat(1, 2)), Rat(3, 2)))
      vend == Clamp01(RDiv(sales_per_day, st.ADVICE_SPD_NORM))
      ppd == Clamp01(RDiv(profit_per_day, st.ADVICE_PPD_NORM))
      p1 == IF "saturo" \in flags THEN st.ADVICE_PENALTY_SATURO ELSE Zero
      p2 == IF "instabile" \in flags THEN RAdd(p1, st.ADVICE_PENALTY_INSTABILE) ELSE p1
      comp_pen == RMul(RMin(One, RDiv(RInt(Max(0, competition_count)), RInt(10))),
                       st.ADVICE_PENALTY_COMP)
      penalty == RAdd(p2, comp_pen)
  IN RSub(RAdd(RAdd(RMul(norm_roi, st.ADVICE_W_ROI), RMul(vend, st.ADVICE_W_SPD)),
               RMul(ppd, st.ADVICE_W_PPD)),
          penalty)

\* compute_score, the score: lines 34-48.
ScoreOf(roi_value, sales_per_day, flags, profit_per_day, competition_count) ==
  LET st == adviceCfg
      norm_roi == Clamp01(RDiv(RAdd(roi_value, Rat(1, 2)), Rat(3, 2)))
      vend == Clamp01(RDiv(sales_per_day, st.ADVICE_SPD_NORM))
      ppd == Clamp01(RDiv(profit_per_day, st.ADVICE_PPD_NORM))
      p1 == IF "saturo" \in flags THEN st.ADVICE_PENALTY_SATURO ELSE Zero
      p2 == IF "instabile" \in flags THEN RAdd(p1, st.ADVICE_PENALTY_INSTABILE) ELSE p1
      comp_pen == RMul(RMin(One, RDiv(RInt(Max(0, competition_count)), RInt(10))),
                       st.ADVICE_PENALTY_COMP)
      penalty == RAdd(p2, comp_pen)
  IN RMax(Zero,
          RSub(RAdd(RAdd(RMul(norm_roi, st.ADVICE_W_ROI), RMul(vend, st.ADVICE_W_SPD)),
                    RMul(ppd, st.ADVICE_W_PPD)),
               penalty))

\* Mutant of RiskOf: the two thresholds are taken the other way round.
RiskOfSwapped(score) ==
  IF RLt(score, adviceCfg.RISK_MED) THEN "alto"
  ELSE IF RLt(score, adviceCfg.RISK_LOW) THEN "medio"
  ELSE "basso"

\* compute_score, the risk class: lines 50-54.
RiskOf(score) ==
  IF RLt(score, adviceCfg.RISK_LOW) THEN "alto"
  ELSE IF RLt(score, adviceCfg.RISK_MED) THEN "medio"
  ELSE "basso"

\* compute_score(roi_value, sales_per_day, flags, profit_per_day, competition_count)
ComputeScore(roi_value, sales_per_day, flags, profit_per_day, competition_count) ==
  LET score == ScoreOf(roi_value, sales_per_day, flags, profit_per_day, competition_count)
  IN [score |-> score, risk |-> RiskOf(score)]

\* The inputs compute_score is applied to.
RoiGrid == {Rat(0 - 1, 1), Rat(0 - 1, 2), Zero, Rat(1, 4), One, RInt(12)}
SpdGrid == {Zero, Rat(10, 7), RInt(5), RInt(10), RInt(20)}
PpdGrid == {RInt(0 - 1000), Zero, RInt(25000), RInt(50000), RInt(100000), RInt(300)}
FlagSets == SUBSET {"saturo", "instabile", "flip"}
CompGrid == {0, 5, 10, 15}

IdleCalc == [fn |-> "none"]

\* A call of compute_score.
ComputeScoreCall ==
  /\ calc.fn = "none"
  /\ \E r \in RoiGrid, spd \in SpdGrid, fl \in FlagSets, ppd \in PpdGrid, comp \in CompGrid :
       LET res == ComputeScore(r, spd, fl, ppd, comp)
       IN calc' = [fn |-> "compute_score", roi |-> r, spd |-> spd, flags |-> fl,
                   ppd |-> ppd, comp |-> comp, score |-> res.score, risk |-> res.risk]
  /\ UNCHANGED <<storeVars, jobVars, rdVars, clientVars>>
  /\ UNCHANGED <<adviceCfg, fb, runLog, prevLog, fan, listFetched>>

\* The pure function returns.
CalcReturn ==
  /\ calc.fn # "none"
  /\ calc' = IdleCalc
  /\ UNCHANGED <<storeVars, jobVars, rdVars, clientVars>>
  /\ UNCHANGED <<adviceCfg, fb, runLog, prevLog, fan, listFetched>>

IdleFb == [who |-> "none", pc |-> "idle", chunk |-> << >>, dataList |-> << >>,
           log |-> << >>, batch |-> "none"]
EmptyRunLog == [tag |-> 0, top |-> 0, ids |-> << >>, data |-> << >>, survivors |-> << >>]
(***************************************************************************)
(* Fan-out points: a coroutine per element, gathered (advice.py 88-97,     *)
(* refresh.py 52-64, market.py 119-128) or awaited in a loop (the per-item *)
(* fetch fallback, refresh.py 123-127 and advice.py 79-84).                *)
(***************************************************************************)
IdleFan == [point |-> "none"]
NoSem == 0 - 1
FanPoints == {"advice_names", "catalog_names", "fetch_fallback", "arbitrage_dc"}
TaskCounts == {1, 2, 3}

\* The semaphore the point creates, NoSem when it creates none.
\*   advice:                max(1, min(settings.REQUESTS_RPS // 2 or 1, 10))
\*   build_id_name_catalog: concurrency or max(1, settings.REQUESTS_RPS // 2)
SemOf(point) ==
  LET half == adviceCfg.REQUESTS_RPS \div 2
  IN CASE point = "advice_names" -> Max(1, Min(IF half # 0 THEN half ELSE 1, 10))
       [] point = "catalog_names" -> Max(1, half)
       [] OTHER -> NoSem

InFlight == Cardinality({t \in DOMAIN fan.st : fan.st[t] = "call"})

\* The point creates its coroutines: one per candidate, identifier or world.
FanStart ==
  /\ fan.point = "none"
  /\ \E p \in FanPoints, n \in TaskCounts :
       fan' = [point |-> p, sem |-> SemOf(p), st |-> [t \in 1..n |-> "new"]]
  /\ UNCHANGED <<storeVars, jobVars, rdVars, clientVars>>
  /\ UNCHANGED <<adviceCfg, calc, fb, runLog, prevLog, listFetched>>

\* A coroutine starts its upstream call: after "async with sem" where the point
\* has a semaphore; in the fallback loop, once the call before it has ended.
TaskEnter(t) ==
  /\ fan.point # "none" /\ t \in DOMAIN fan.st /\ fan.st[t] = "new"
  /\ fan.sem # NoSem => InFlight < fan.sem
  /\ fan.point = "fetch_fallback" => \A o \in 1..(t - 1) : fan.st[o] = "done"
  /\ fan' = [fan EXCEPT !.st[t] = "call"]
  /\ UNCHANGED <<storeVars, jobVars, rdVars, clientVars>>
  /\ UNCHANGED <<adviceCfg, calc, fb, runLog, prevLog, listFetched>>

\* The upstream call of a coroutine ends (result or exception); the semaphore,
\* if any, is released.
TaskExit(t) ==
  /\ fan.point # "none" /\ t \in DOMAIN fan.st /\ fan.st[t] = "call"
  /\ fan' = [fan EXCEPT !.st[t] = "done"]
  /\ UNCHANGED <<storeVars, jobVars, rdVars, clientVars>>
  /\ UNCHANGED <<adviceCfg, calc, fb, runLog, prevLog, listFetched>>

\* gather / as_completed / the loop has every result.
FanJoin ==
  /\ fan.point # "none"
  /\ \A t \in DOMAIN fan.st : fan.st[t] = "done"
  /\ fan' = IdleFan
  /\ UNCHANGED <<storeVars, jobVars, rdVars, clientVars>>
  /\ UNCHANGED <<adviceCfg, calc, fb, runLog, prevLog, listFetched>>

InitAux ==
  /\ calc = IdleCalc /\ fb = IdleFb /\ runLog = EmptyRunLog /\ prevLog = EmptyRunLog
  /\ fan = IdleFan /\ listFetched = NotFetched
InitExt == InitAux /\ adviceCfg = Loaded(DefaultAdvice)

(***************************************************************************)
(* Part 4: the market metrics (broker/services/metrics.py) and the batch   *)
(* step of full_scan_advice (_process_chunk): fetch of a batch with the    *)
(* per-item fallback, then the metrics loop.  The advice endpoint fetches  *)
(* its candidates the same way.                                            *)
(***************************************************************************)
\* time.time(): the model clock starts seven days after the epoch.
DaySeconds == 86400
Clock == 7 * DaySeconds + now

\* _cutoff_ts(days)
CutoffTs(days) == Clock - days * DaySeconds

\* What a listings blob and a history blob stand for: the pricePerUnit of each
\* listing (Missing: the entry has no pricePerUnit) and the sales.
Sale(p, q, ts) == [pricePerUnit |-> p, quantity |-> q, timestamp |-> ts]
ListingsOf(b) ==
  CASE b = 0 -> << >>
    [] b = 1 -> <<100>>
    [] b = 2 -> <<95>>
    [] b = 3 -> <<Missing>>
    [] b = 4 -> <<100000>>
    [] OTHER -> <<2>>
HistoryOf(b) ==
  CASE b = 0 -> << >>
    [] b = 1 -> <<Sale(150, 6, 100)>>
    [] b = 2 -> <<Sale(1365, 1, 100)>>
    [] b = 3 -> <<Sale(1365, 5, 100)>>
    [] b = 4 -> <<Sale(400000, 1, 100)>>
    [] OTHER -> <<Sale(1, 1, 100), Sale(1000, 1, 100), Sale(50, 1, 100), Sale(50, 1, 100),
                  Sale(50, 1, 100)>>

\* What the provider may serve for each item: in the scan, and in the smaller
\* market the fallback is exercised on.
ScanMarket ==
  [i \in Items |->
     IF i = 1
     THEN {[listings |-> 1, recentHistory |-> 1], [listings |-> 2, recentHistory |-> 2],
           [listings |-> 5, recentHistory |-> 5], [listings |-> 3, recentHistory |-> 1]}
     ELSE {[listings |-> 2, recentHistory |-> 3], [listings |-> 4, recentHistory |-> 4],
           [listings |-> 1, recentHistory |-> 1]}]
FewMarket ==
  [i \in Items |-> {[listings |-> 1, recentHistory |-> 1], [listings |-> 0, recentHistory |-> 0]}]
AllSnaps == UNION {ScanMarket[i] \cup FewMarket[i] : i \in Items}

RECURSIVE SumSeq(_)
SumSeq(s) == IF s = << >> THEN 0 ELSE Head(s) + SumSeq(Tail(s))

\* prices.sort()
RECURSIVE InsertAsc(_, _)
InsertAsc(x, s) == IF s = << >> THEN <<x>>
                   ELSE IF Head(s) <= x THEN <<Head(s)>> \o InsertAsc(x, Tail(s))
                   ELSE <<x>> \o s
RECURSIVE SortAsc(_)
SortAsc(s) == IF s = << >> THEN << >> ELSE InsertAsc(Head(s), SortAsc(Tail(s)))

\* None, where a float is expected.
NoRat == [n |-> 0, d |-> 0]

\* Mutant of InWindow: a sale at the cutoff itself is left out.
InWindowStrict(history, days) == SelectSeq(history, LAMBDA s : s.timestamp > CutoffTs(days))

\* The sales of the window: sale.timestamp >= cutoff.
InWindow(history, days) == SelectSeq(history, LAMBDA s : s.timestamp >= CutoffTs(days))

\* prices_in_window(history, days)
PricesInWindow(history, days) ==
  LET w == InWindow(history, days) IN [p \in 1..Len(w) |-> w[p].pricePerUnit]

\* avg_price(history, days)
AvgPrice(history, days) ==
  LET ps == PricesInWindow(history, days)
  IN IF ps = << >> THEN NoRat ELSE Rat(SumSeq(ps), Len(ps))

\* int(x) of a float x >= 0, and Python's round(x): to the nearest integer,
\* a tie to the even one.
Floor(x) == x.n \div x.d
RoundHalfEven(x) ==
  LET f == x.n \div x.d
      twice == 2 * (x.n - f * x.d)
  IN IF twice < x.d THEN f
     ELSE IF twice > x.d THEN f + 1
     ELSE IF f % 2 = 0 THEN f ELSE f + 1

\* core = prices[k : n - k] if n - k > k else prices; if not core: core = prices
TrimCore(ps, k) ==
  LET n == Len(ps)
      core == IF n - k > k THEN SubSeq(ps, k + 1, n - k) ELSE ps
  IN IF core = << >> THEN ps ELSE core

\* Mutant of TrimmedMeanPrice: the k prices are removed from the low end only.
TrimmedMeanLowEnd(history, days, trim) ==
  LET ps == SortAsc(PricesInWindow(history, days))
      k == Floor(RMul(RInt(Len(ps)), RMax(Zero, RMin(Rat(45, 100), trim))))
      core == SubSeq(ps, k + 1, Len(ps))
  IN IF ps = << >> THEN NoRat ELSE Rat(SumSeq(core), Len(core))

\* trimmed_mean_price(history, days, trim): k = int(n * max(0.0, min(0.45, trim)))
TrimmedMeanPrice(history, days, trim) ==
  LET ps == SortAsc(PricesInWindow(history, days))
      k == Floor(RMul(RInt(Len(ps)), RMax(Zero, RMin(Rat(45, 100), trim))))
      core == TrimCore(ps, k)
  IN IF ps = << >> THEN NoRat ELSE Rat(SumSeq(core), Len(core))

\* Mutant of QuantilePrice: the index is truncated, not rounded.
QuantilePriceTrunc(history, q, days) ==
  LET ps == SortAsc(PricesInWindow(history, days))
      qc == RMax(Zero, RMin(One, q))
  IN IF ps = << >> THEN NoRat
     ELSE RInt(ps[Floor(RMul(RInt(Len(ps) - 1), qc)) + 1])

\* quantile_price(history, q, days): prices[int(round((len(prices) - 1) * q))]
QuantilePrice(history, q, days) ==
  LET ps == SortAsc(PricesInWindow(history, days))
      qc == RMax(Zero, RMin(One, q))
  IN IF ps = << >> THEN NoRat
     ELSE RInt(ps[RoundHalfEven(RMul(RInt(Len(ps) - 1), qc)) + 1])

\* median_price(history, days)
MedianPrice(history, days) == QuantilePrice(history, Rat(1, 2), days)

\* price_cv(history, days), squared: statistics.stdev is the sample standard
\* deviation, so cv^2 = (n*sum(x^2) - sum(x)^2) / (n*(n-1)) / mean^2.
PriceCvSq(history, days) ==
  LET ps == PricesInWindow(history, days)
      n == Len(ps)
      sum == SumSeq(ps)
      sumSq == SumSeq([p \in 1..n |-> ps[p] * ps[p]])
  IN IF n < 2 \/ sum = 0 THEN NoRat
     ELSE RDiv(Rat(n * sumSq - sum * sum, n * (n - 1)), Rat(sum * sum, n * n))

\* units_sold(history, days) and sales_per_day(history, days)
UnitsSold(history, days) ==
  LET w == InWindow(history, days) IN SumSeq([p \in 1..Len(w) |-> w[p].quantity])
SalesPerDay(history, days) == Rat(UnitsSold(history, days), days)

\* max(0.0, min(tax, 1.0))
ClampTax(tax) == RMax(Zero, RMin(tax, One))

\* Mutant of Roi: the profit is divided by the cost before the buyer's tax.
RoiOverBareCost(net_price, cost_total, buyer_tax, seller_tax) ==
  IF RLe(cost_total, Zero) THEN Zero
  ELSE RDiv(RSub(RMul(net_price, RSub(One, ClampTax(seller_tax))),
                 RMul(cost_total, RAdd(One, ClampTax(buyer_tax)))),
            cost_total)

\* roi(net_price, cost_total, buyer_tax, seller_tax)
Roi(net_price, cost_total, buyer_tax, seller_tax) ==
  IF RLe(cost_total, Zero) THEN Zero
  ELSE LET revenue == RMul(net_price, RSub(One, ClampTax(seller_tax)))
           effective_cost == RMul(cost_total, RAdd(One, ClampTax(buyer_tax)))
       IN RDiv(RSub(revenue, effective_cost), effective_cost)

\* net_profit_unit(target_price, lowest_cost, buyer_tax, seller_tax)
NetProfitUnit(target_price, lowest_cost, buyer_tax, seller_tax) ==
  RSub(RMul(target_price, RSub(One, ClampTax(seller_tax))),
       RMul(lowest_cost, RAdd(One, ClampTax(buyer_tax))))

\* buyer_tax = 0.05, seller_tax = 0.05
DefaultTax == Rat(1, 20)

\* saturation_flag(stock_count, spd) and flip_flag(lowest, avg7)
SaturationFlag(stock_count, spd) ==
  RLt(RMul(adviceCfg.ADVICE_SATURATION_MULT, spd), RInt(stock_count))
FlipFlag(lowest, avg7) ==
  avg7 # NoRat /\ RLt(lowest, RMul(adviceCfg.FLIP_THRESHOLD, avg7))

\* Mutant of AntiScam: the number of units sold is not looked at.
AntiScamIgnoresSales(rroi, sold, cvSq, p_unit) ==
  /\ RLt(adviceCfg.ADVICE_SUSPECT_ROI, rroi)
  /\ cvSq # NoRat
  /\ RLt(RMul(adviceCfg.ADVICE_SUSPECT_CV, adviceCfg.ADVICE_SUSPECT_CV), cvSq)

\* The anti-scam filter of _process_chunk (lines 153-161); cv > ADVICE_SUSPECT_CV
\* is compared on the squares.
AntiScam(rroi, sold, cvSq, p_unit) ==
  \/ /\ RLt(adviceCfg.ADVICE_SUSPECT_ROI, rroi)
     /\ \/ sold < adviceCfg.ADVICE_MIN_SALES_SAFE
        \/ /\ cvSq # NoRat
           /\ RLt(RMul(adviceCfg.ADVICE_SUSPECT_CV, adviceCfg.ADVICE_SUSPECT_CV), cvSq)
  \/ /\ RLt(RInt(adviceCfg.ADVICE_SUSPECT_ABS_PROFIT), p_unit)
     /\ sold < adviceCfg.ADVICE_MIN_SALES_SAFE

\* float(score), held in thousandths.
Fixed(score) == (score.n * 1000) \div score.d

\* The metrics of one item of a batch, as the loop body computes them (lines
\* 130-152), up to the anti-scam filter.  stage tells where the body stops:
\* "skip" (continue), "raise" (an exception) or "metrics".
ItemMetrics(data) ==
  LET listings == ListingsOf(data.listings)
      history == HistoryOf(data.recentHistory)
      prices == {listings[p] : p \in 1..Len(listings)}
      none == [stage |-> "skip", roi |-> Zero, sold |-> 0, cvSq |-> NoRat, p_unit |-> Zero,
               spd |-> Zero, ppd |-> Zero, flags |-> {}, comp |-> 0]
  IN IF listings = << >> /\ history = << >> THEN none
     ELSE IF Missing \in prices THEN [none EXCEPT !.stage = "raise"]
     ELSE IF listings = << >> THEN none
     ELSE LET lowest == RInt(CHOOSE x \in prices : \A y \in prices : x <= y)
              spd == SalesPerDay(history, 7)
              tm == TrimmedMeanPrice(history, 7, Rat(1, 5))
              tgt == IF tm # NoRat /\ tm # Zero THEN tm ELSE AvgPrice(history, 7)
          IN IF tgt = NoRat THEN none
             ELSE LET p_unit == NetProfitUnit(tgt, lowest, DefaultTax, DefaultTax)
                  IN [stage |-> "metrics",
                      roi |-> Roi(tgt, lowest, DefaultTax, DefaultTax),
                      sold |-> UnitsSold(history, 7),
                      cvSq |-> PriceCvSq(history, 7),
                      p_unit |-> p_unit,
                      spd |-> spd,
                      ppd |-> RMul(spd, p_unit),
                      flags |-> (IF SaturationFlag(Len(listings), spd) THEN {"saturo"} ELSE {})
                                \cup (IF FlipFlag(lowest, tgt) THEN {"flip"} ELSE {}),
                      comp |-> Cardinality({p \in 1..Len(listings) : RLe(RInt(listings[p]), tgt)})]

\* The body of the per-item try (lines 130-176): what it appends to candidates
\* and whether it raises.
CandidateOf(iid, data, m) ==
  IF m.stage = "raise" THEN [raised |-> TRUE, cand |-> << >>]
  ELSE IF m.stage = "skip" \/ AntiScam(m.roi, m.sold, m.cvSq, m.p_unit)
  THEN [raised |-> FALSE, cand |-> << >>]
  ELSE [raised |-> FALSE,
        cand |-> << [item_id |-> iid,
                     score |-> Fixed(ComputeScore(m.roi, m.spd, m.flags, m.ppd, m.comp).score),
                     snap |-> data] >>]
ItemOutcome(iid, data) == CandidateOf(iid, data, ItemMetrics(data))

\* Mutant of PerItemExcept: the exception leaves the loop.
PerItemReraise(o) == o

\* except Exception: continue (lines 177-178)
PerItemExcept(o) == [raised |-> FALSE, cand |-> IF o.raised THEN << >> ELSE o.cand]

\* The loop goes on to the rest of the batch unless the item's outcome left it.
Accumulate(o, rest) ==
  IF o.raised THEN [raised |-> TRUE, cands |-> << >>]
  ELSE [raised |-> rest.raised, cands |-> o.cand \o rest.cands]

\* for iid, data in zip(chunk, data_list): ...
RECURSIVE ProcessData(_, _)
ProcessData(chunk, dl) ==
  IF chunk = << >> \/ dl = << >> THEN [raised |-> FALSE, cands |-> << >>]
  ELSE Accumulate(PerItemExcept(ItemOutcome(Head(chunk), Head(dl))),
                  ProcessData(Tail(chunk), Tail(dl)))

\* Mutant of OnItemFailure: the item whose fetch failed is left out.
OnItemFailureSkip(dl) == dl

\* except Exception: data_list.append({"listings": [], "recentHistory": []})
OnItemFailure(dl) == Append(dl, EmptySnap)

\* try: data_list = await get_items_world(chunk, world) / except Exception:
\* data_list = [] and the per-item loop starts.
FetchBatch(who, chunk, market) ==
  \/ \E dl \in [1..Len(chunk) -> AllSnaps] :
       /\ \A p \in 1..Len(chunk) : dl[p] \in market[chunk[p]]
       /\ fb' = [who |-> who, pc |-> "fetched", chunk |-> chunk, dataList |-> dl,
                 log |-> << >>, batch |-> "returned"]
  \/ fb' = [who |-> who, pc |-> "fallback", chunk |-> chunk, dataList |-> << >>,
            log |-> << >>, batch |-> "raised"]

\* One turn of the fallback loop: await get_item_world(iid, world) returns a
\* snapshot or raises.  log keeps, per call made, the identifier and the
\* snapshot returned (NoSnap: the call raised).
FallbackItem(market) ==
  /\ fb.pc = "fallback"
  /\ LET iid == fb.chunk[Len(fb.log) + 1]
         last == Len(fb.log) + 1 = Len(fb.chunk)
     IN \/ \E snap \in market[iid] :
             fb' = [fb EXCEPT !.dataList = Append(@, snap),
                              !.log = Append(@, [item |-> iid, snap |-> snap]),
                              !.pc = IF last THEN "fetched" ELSE "fallback"]
        \/ fb' = [fb EXCEPT !.dataList = OnItemFailure(@),
                            !.log = Append(@, [item |-> iid, snap |-> NoSnap]),
                            !.pc = IF last THEN "fetched" ELSE "fallback"]
  /\ UNCHANGED <<storeVars, jobVars, rdVars, clientVars>>
  /\ UNCHANGED <<adviceCfg, calc, runLog, prevLog, fan, listFetched>>

\* _process_chunk(ids[i : i + batch_size]), the fetch.  The first batch of a
\* run opens the record of what the run fetched and kept.
ScanFetch(j, market) ==
  /\ pc[j] = "scan" /\ fb.pc = "idle"
  /\ FetchBatch("scan", SubSeq(ids[j], pos[j], Min(pos[j] + batchSize[j] - 1, Len(ids[j]))),
                market)
  /\ IF pos[j] = 1
     THEN /\ prevLog' = runLog
          /\ runLog' = [tag |-> tag[j], top |-> storeTop[j], ids |-> ids[j],
                        data |-> << >>, survivors |-> << >>]
     ELSE UNCHANGED <<runLog, prevLog>>
  /\ UNCHANGED <<storeVars, jobVars, rdVars, clientVars>>
  /\ UNCHANGED <<adviceCfg, calc, fan, listFetched>>

\* _process_chunk, the loop over zip(chunk, data_list); then the next batch,
\* or the sort when this was the last one.
ScanProcess(j) ==
  /\ pc[j] = "scan" /\ fb.who = "scan" /\ fb.pc = "fetched"
  /\ \E res \in {ProcessData(fb.chunk, fb.dataList)} :
     LET next == pos[j] + Len(fb.chunk)
     IN IF res.raised
        THEN /\ pc' = [pc EXCEPT ![j] = "failed"]
             /\ failedAt' = [failedAt EXCEPT ![j] = "scan"]
             /\ UNCHANGED <<cands, pos, runLog>>
        ELSE /\ cands' = [cands EXCEPT ![j] = @ \o res.cands]
             /\ pos' = [pos EXCEPT ![j] = next]
             /\ pc' = [pc EXCEPT ![j] = IF next > Len(ids[j]) THEN "sort" ELSE "scan"]
             /\ runLog' = [runLog EXCEPT !.data = @ \o fb.dataList,
                                         !.survivors = @ \o res.cands]
             /\ UNCHANGED failedAt
  /\ fb' = IdleFb
  /\ UNCHANGED storeVars
  /\ UNCHANGED <<ids, batchSize, storeTop, ret, tag, nruns, before>>
  /\ UNCHANGED <<rdVars, clientVars>>
  /\ UNCHANGED <<adviceCfg, calc, prevLog, fan, listFetched>>

\* advice: data_list = await get_items_world(candidate_ids, world), with the
\* same fallback (lines 76-85).
AdviceIdLists == {<<1>>, <<2, 1>>}
AdviceFetch(market) ==
  /\ fb.pc = "idle"
  /\ \E idl \in AdviceIdLists : FetchBatch("advice", idl, market)
  /\ UNCHANGED <<storeVars, jobVars, rdVars, clientVars>>
  /\ UNCHANGED <<adviceCfg, calc, runLog, prevLog, fan, listFetched>>

\* advice: names, metrics and ranking of the fetched candidates; the response.
AdviceRespond ==
  /\ fb.who = "advice" /\ fb.pc = "fetched"
  /\ fb' = IdleFb
  /\ UNCHANGED <<storeVars, jobVars, rdVars, clientVars>>
  /\ UNCHANGED <<adviceCfg, calc, runLog, prevLog, fan, listFetched>>

(***************************************************************************)
(* Part 5: calls of the metrics library on its own, over histories whose   *)
(* sales lie around the cutoffs, price lists of one to ten sales, and      *)
(* every kind of trim, quantile and tax argument.                          *)
(***************************************************************************)
MaxSales == 3

\* Sale timestamps around the cutoffs of a 7-day and a 1-day window, and the
\* sales a history is made of (pricePerUnit >= 0, quantity >= 1).
TsGrid == {0, 1, 6 * DaySeconds, 6 * DaySeconds + 1}
SaleGrid == {Sale(0, 1, ts) : ts \in TsGrid} \cup {Sale(10, 1, ts) : ts \in TsGrid}
            \cup {Sale(30, 2, ts) : ts \in TsGrid}
WindowHistories == UNION {[1..n -> SaleGrid] : n \in 0..MaxSales}
ShortHistories == UNION {[1..n -> SaleGrid] : n \in 0..2}
DaysGrid == {1, 7}

\* Price lists of up to ten recent sales, unsorted, with and without repeats.
TenPrices == <<50, 10, 90, 30, 70, 20, 80, 40, 100, 60>>
TenRepeats == <<5, 5, 1, 9, 5, 1, 9, 9, 2, 5>>
Recent(prices) == [p \in 1..Len(prices) |-> Sale(prices[p], 1, 7 * DaySeconds)]
PriceHistories == {Recent(SubSeq(TenPrices, 1, n)) : n \in 0..10}
                  \cup {Recent(SubSeq(TenRepeats, 1, n)) : n \in 1..10}
QuantHistories == PriceHistories \cup ShortHistories
TrimGrid == {Rat(0 - 1, 10), Zero, Rat(1, 10), Rat(1, 5), Rat(1, 4), Rat(45, 100),
             Rat(1, 2), One}
QGrid == {Rat(0 - 1, 2), Zero, Rat(1, 4), Rat(1, 3), Rat(1, 2), Rat(3, 4), One, Rat(3, 2)}
NetGrid == {Zero, RInt(100), RInt(110), RInt(111), RInt(200)}
CostGrid == {RInt(0 - 5), Zero, One, RInt(100)}
TaxGrid == {Rat(0 - 1, 2), Zero, Rat(1, 20), Rat(1, 2), One, RInt(2)}

\* avg_price, trimmed_mean_price, quantile_price, price_cv, sales_per_day and
\* units_sold on the same history and day count, at the same clock.
WindowCall ==
  /\ calc.fn = "none"
  /\ \E h \in WindowHistories, d \in DaysGrid :
       calc' = [fn |-> "window", history |-> h, days |-> d, at |-> Clock,
                avg |-> AvgPrice(h, d),
                tmean |-> TrimmedMeanPrice(h, d, Rat(1, 5)),
                quant |-> QuantilePrice(h, Rat(1, 2), d),
                cvSq |-> PriceCvSq(h, d),
                spd |-> SalesPerDay(h, d),
                sold |-> UnitsSold(h, d)]
  /\ UNCHANGED <<storeVars, jobVars, rdVars, clientVars>>
  /\ UNCHANGED <<adviceCfg, fb, runLog, prevLog, fan, listFetched>>

\* trimmed_mean_price(history, 7, trim)
TrimmedMeanCall ==
  /\ calc.fn = "none"
  /\ \E h \in PriceHistories, trim \in TrimGrid :
       calc' = [fn |-> "trimmed_mean_price", history |-> h, trim |-> trim,
                result |-> TrimmedMeanPrice(h, 7, trim)]
  /\ UNCHANGED <<storeVars, jobVars, rdVars, clientVars>>
  /\ UNCHANGED <<adviceCfg, fb, runLog, prevLog, fan, listFetched>>

\* quantile_price(history, q, days) and median_price(history, days)
QuantileCall ==
  /\ calc.fn = "none"
  /\ \E h \in QuantHistories, q \in QGrid, d \in DaysGrid :
       calc' = [fn |-> "quantile_price", history |-> h, q |-> q, days |-> d, at |-> Clock,
                result |-> QuantilePrice(h, q, d),
                half |-> QuantilePrice(h, Rat(1, 2), d),
                median |-> MedianPrice(h, d)]
  /\ UNCHANGED <<storeVars, jobVars, rdVars, clientVars>>
  /\ UNCHANGED <<adviceCfg, fb, runLog, prevLog, fan, listFetched>>

\* roi(net_price, cost_total, buyer_tax, seller_tax) and net_profit_unit on the
\* same arguments.
RoiCall ==
  /\ calc.fn = "none"
  /\ \E net \in NetGrid, cost \in CostGrid, bt \in TaxGrid, st \in TaxGrid :
       calc' = [fn |-> "roi", net |-> net, cost |-> cost, buyer_tax |-> bt, seller_tax |-> st,
                roi |-> Roi(net, cost, bt, st),
                profit |-> NetProfitUnit(net, cost, bt, st)]
  /\ UNCHANGED <<storeVars, jobVars, rdVars, clientVars>>
  /\ UNCHANGED <<adviceCfg, fb, runLog, prevLog, fan, listFetched>>

(***************************************************************************)
(* Part 6: refresh_items(world, items): for each item, get_item_world and  *)
(* two set_json calls of what it returned.                                 *)
(***************************************************************************)
RefreshLists == {<< >>, <<1>>, <<1, 2>>, <<1, 1>>}

\* Entry of refresh_items: count = 0; an empty list returns 0 at once.
CallRefreshItems ==
  /\ fb.pc = "idle" /\ call.op = "none"
  /\ \E items \in RefreshLists :
       fb' = [who |-> "refresh", pc |-> IF items = << >> THEN "done" ELSE "fetch",
              chunk |-> items, dataList |-> << >>, log |-> << >>, batch |-> "none",
              status |-> IF items = << >> THEN "ok" ELSE "none", count |-> 0]
  /\ UNCHANGED <<storeVars, jobVars, rdVars, clientVars>>
  /\ UNCHANGED <<adviceCfg, calc, runLog, prevLog, fan, listFetched>>

\* data = await get_item_world(iid, world): the call of the next item starts.
RefreshFetch ==
  /\ fb.who = "refresh" /\ fb.pc = "fetch" /\ call.op = "none"
  /\ call' = [IdleCall EXCEPT !.op = "get_item_world", !.pc = "read",
                              !.item = fb.chunk[Len(fb.log) + 1]]
  /\ fb' = [fb EXCEPT !.pc = "await"]
  /\ UNCHANGED <<cfg, cache, storeVars, jobVars, rdVars>>
  /\ UNCHANGED <<adviceCfg, calc, runLog, prevLog, fan, listFetched>>

\* What one turn of the loop saw: the item, whether both cache keys were present
\* when get_item_world read them, the requests it sent, what it returned.
RefreshTurn(c) ==
  [item |-> c.item, hadBoth |-> c.cl # NoVal /\ c.ch # NoVal, requests |-> Len(c.reqs),
   fetched |-> c.fetched, snap |-> c.snap]

\* get_item_world has returned or raised.  Returned: set_json of the listings
\* under CACHE_TTL_SHORT and of the history under CACHE_TTL_LONG, count += 2,
\* next item or return count.  An exception of the call or of a set_json
\* leaves refresh_items.
RefreshStore ==
  /\ fb.who = "refresh" /\ fb.pc = "await" /\ call.pc = "done"
  /\ call' = IdleCall
  /\ LET turn == RefreshTurn(call)
         last == Len(fb.log) + 1 = Len(fb.chunk)
     IN IF call.status = "raise"
        THEN /\ fb' = [fb EXCEPT !.pc = "done", !.status = "raise", !.log = Append(@, turn)]
             /\ UNCHANGED cache
        ELSE \E w \in {"ok", "fail_l", "fail_h"} :
               /\ cache' = [cache EXCEPT ![call.item] = ItemStore(@, call.snap, w)]
               /\ fb' = IF w = "ok"
                        THEN [fb EXCEPT !.count = @ + 2, !.log = Append(@, turn),
                                        !.pc = IF last THEN "done" ELSE "fetch",
                                        !.status = IF last THEN "ok" ELSE @]
                        ELSE [fb EXCEPT !.pc = "done", !.status = "raise",
                                        !.log = Append(@, turn)]
  /\ UNCHANGED <<cfg, storeVars, jobVars, rdVars>>
  /\ UNCHANGED <<adviceCfg, calc, runLog, prevLog, fan, listFetched>>

RefreshReturn ==
  /\ fb.who = "refresh" /\ fb.pc = "done"
  /\ fb' = IdleFb
  /\ UNCHANGED <<storeVars, jobVars, rdVars, clientVars>>
  /\ UNCHANGED <<adviceCfg, calc, runLog, prevLog, fan, listFetched>>

(***************************************************************************)
(* Part 7: overview(world, limit, source, roi_min): the identifiers of the *)
(* advice endpoint or of the seed list, then one coroutine per identifier, *)
(* gathered.  fan keeps the coroutines and counts the calls of the fetch   *)
(* client the handler makes.                                               *)
(***************************************************************************)
SeedIds == <<1675, 5, 19, 3976, 12538, 8166, 5330, 28064, 35946, 36064>>
OverviewLimits == {0, 1, 2, 3}
\* What advice_endpoint gives: items with or without a name, or an exception.
AdviceItem(i, named) == [item_id |-> i, named |-> named]
AdviceAnswers == {<< >>,
                  <<AdviceItem(1, TRUE)>>,
                  <<AdviceItem(2, FALSE), AdviceItem(1, TRUE)>>,
                  <<AdviceItem(1, TRUE), AdviceItem(2, TRUE), AdviceItem(1, FALSE)>>}

\* ids = seed_ids[: max(1, min(limit, len(seed_ids)))]
SeedFor(limit) == SubSeq(SeedIds, 1, Max(1, Min(limit, Len(SeedIds))))

\* names_hint[iid] of the coroutine of position t: a name some advice item of
\* that identifier carried.
Hinted(items, iid) == \E p \in 1..Len(items) : items[p].item_id = iid /\ items[p].named

OverviewFan(idl, hints) ==
  [point |-> "overview", sem |-> NoSem, pc |-> "gather", ids |-> idl, hint |-> hints,
   st |-> [t \in 1..Len(idl) |-> "new"],
   itemCalls |-> 0,     \* calls of get_item_world
   batchCalls |-> 0,    \* calls of get_items_world
   nameCalls |-> 0]     \* calls of get_item_name

\* Lines 94-119: the identifiers, then the coroutines are created.
OverviewStart ==
  /\ fan.point = "none"
  /\ \E limit \in OverviewLimits, source \in {"advice", "seed"} :
       \/ /\ source = "advice"
          /\ \E ans \in AdviceAnswers :
               fan' = IF ans = << >> THEN OverviewFan(SeedFor(limit), [t \in 1..Len(SeedFor(limit)) |-> FALSE])
                      ELSE OverviewFan([p \in 1..Len(ans) |-> ans[p].item_id],
                                       [p \in 1..Len(ans) |-> Hinted(ans, ans[p].item_id)])
       \/ fan' = OverviewFan(SeedFor(limit), [t \in 1..Len(SeedFor(limit)) |-> FALSE])
  /\ UNCHANGED <<storeVars, jobVars, rdVars, clientVars>>
  /\ UNCHANGED <<adviceCfg, calc, fb, runLog, prevLog, listFetched>>

\* _one(iid): data = await get_item_world(iid, world), the call starts.
OverviewFetch(t) ==
  /\ fan.point = "overview" /\ fan.pc = "gather"
  /\ t \in DOMAIN fan.st /\ fan.st[t] = "new"
  /\ fan' = [fan EXCEPT !.st[t] = "fetch", !.itemCalls = @ + 1]
  /\ UNCHANGED <<storeVars, jobVars, rdVars, clientVars>>
  /\ UNCHANGED <<adviceCfg, calc, fb, runLog, prevLog, listFetched>>

\* get_item_world returns or raises; on a return the metrics of the item, then
\* names_hint.get(iid) or await get_item_name(iid) or "Item {iid}".
OverviewFetched(t) ==
  /\ fan.point = "overview" /\ fan.pc = "gather"
  /\ t \in DOMAIN fan.st /\ fan.st[t] = "fetch"
  /\ \/ fan' = [fan EXCEPT !.pc = "raised", !.st[t] = "raised"]
     \/ fan' = IF fan.hint[t] THEN [fan EXCEPT !.st[t] = "done"]
               ELSE [fan EXCEPT !.st[t] = "name", !.nameCalls = @ + 1]
  /\ UNCHANGED <<storeVars, jobVars, rdVars, clientVars>>
  /\ UNCHANGED <<adviceCfg, calc, fb, runLog, prevLog, listFetched>>

\* get_item_name returns or raises.
OverviewNamed(t) ==
  /\ fan.point = "overview" /\ fan.pc = "gather"
  /\ t \in DOMAIN fan.st /\ fan.st[t] = "name"
  /\ \/ fan' = [fan EXCEPT !.pc = "raised", !.st[t] = "raised"]
     \/ fan' = [fan EXCEPT !.st[t] = "done"]
  /\ UNCHANGED <<storeVars, jobVars, rdVars, clientVars>>
  /\ UNCHANGED <<adviceCfg, calc, fb, runLog, prevLog, listFetched>>

\* items = await asyncio.gather(...): every result is there; the response.
OverviewGathered ==
  /\ fan.point = "overview" /\ fan.pc = "gather"
  /\ \A t \in DOMAIN fan.st : fan.st[t] = "done"
  /\ fan' = [fan EXCEPT !.pc = "responded"]
  /\ UNCHANGED <<storeVars, jobVars, rdVars, clientVars>>
  /\ UNCHANGED <<adviceCfg, calc, fb, runLog, prevLog, listFetched>>

\* The handler has answered or raised.
OverviewEnd ==
  /\ fan.point = "overview" /\ fan.pc \in {"responded", "raised"}
  /\ fan' = IdleFan
  /\ UNCHANGED <<storeVars, jobVars, rdVars, clientVars>>
  /\ UNCHANGED <<adviceCfg, calc, fb, runLog, prevLog, listFetched>>

(***************************************************************************)
(* Part 8: cache keys.  A string is the sequence of its characters, so     *)
(* that concatenation is what the f-strings do.                            *)
(***************************************************************************)
Digits == <<"0", "1", "2", "3", "4", "5", "6", "7", "8", "9">>
RECURSIVE Dec(_)
Dec(n) == IF n < 10 THEN <<Digits[n + 1]>> ELSE Dec(n \div 10) \o <<Digits[(n % 10) + 1]>>
\* str(int)
StrInt(i) == IF i < 0 THEN <<"-">> \o Dec(0 - i) ELSE Dec(i)

Colon == <<":">>
TxtAdv == <<"a", "d", "v">>
TxtU == <<"u">>
TxtX == <<"x">>
TxtScore == <<"s", "c", "o", "r", "e">>
TxtData == <<"d", "a", "t", "a">>
TxtTs == <<"t", "s">>
TxtCount == <<"c", "o", "u", "n", "t">>
TxtTmp == <<"t", "m", "p">>
TxtListings == <<"l", "i", "s", "t", "i", "n", "g", "s">>
TxtHistory == <<"h", "i", "s", "t", "o", "r", "y">>
TxtMarketable == <<"m", "a", "r", "k", "e", "t", "a", "b", "l", "e">>
TxtName == <<"n", "a", "m", "e">>
TxtRecipe == <<"r", "e", "c", "i", "p", "e">>

\* def ns(namespace, key): return f"{namespace}:{key}"
Ns(namespace, key) == namespace \o Colon \o key

\* The kinds of adv: keys of a region and the text each one puts after
\* f"{world}:" (refresh.py 106-111, advice.py 184-186).
AdvKinds == {"score", "data", "ts", "count", "score:tmp", "data:tmp"}
AdvText(kind) ==
  CASE kind = "score" -> TxtScore
    [] kind = "data" -> TxtData
    [] kind = "ts" -> TxtTs
    [] kind = "count" -> TxtCount
    [] kind = "score:tmp" -> TxtScore \o Colon \o TxtTmp
    [] kind = "data:tmp" -> TxtData \o Colon \o TxtTmp
AdvKey(world, kind) == Ns(TxtAdv, world \o Colon \o AdvText(kind))

\* Mutant of ItemKey: no separator between the region and the identifier.
ItemKeyNoSep(world, iid, kind) ==
  Ns(TxtU, world \o StrInt(iid) \o Colon
           \o (IF kind = "listings" THEN TxtListings ELSE TxtHistory))

\* ns("u", f"{world}:{item_id}:listings") / ns("u", f"{world}:{item_id}:history")
ItemKey(world, iid, kind) ==
  Ns(TxtU, world \o Colon \o StrInt(iid) \o Colon
           \o (IF kind = "listings" THEN TxtListings ELSE TxtHistory))

\* ns("u", "marketable")
MarketableKey == Ns(TxtU, TxtMarketable)

\* ns("x", f"name:{item_id}") / ns("x", f"recipe:{item_id}")
CatalogKey(kind, iid) ==
  Ns(TxtX, (IF kind = "name" THEN TxtName ELSE TxtRecipe) \o Colon \o StrInt(iid))

\* Region names: any string a request carries, with and without colons and
\* with the texts the keys themselves use.
RegionNames ==
  {<< >>, <<"W">>, <<"W", "1">>, <<"W", ":", "1">>, <<"W">> \o Colon \o TxtScore,
   <<"W">> \o Colon \o TxtScore \o Colon \o TxtTmp, <<"W">> \o Colon \o TxtData,
   TxtTmp, <<"1">>, <<"W", ":">>}
KeyItems == {0 - 1, 1, 2, 12}

\* The logical values the store holds: namespace, region, item, kind.
NoRegion == <<"?">>
NoItem == 0 - 1000
Logical(namespace, world, iid, kind) ==
  [ns |-> namespace, world |-> world, item |-> iid, kind |-> kind]
AdvValues == {Logical("adv", w, NoItem, k) : w \in RegionNames, k \in AdvKinds}
ItemValues == {Logical("u", w, i, k) : w \in RegionNames, i \in KeyItems,
                                       k \in {"listings", "history"}}
CatalogValues == {Logical("x", NoRegion, i, k) : i \in KeyItems, k \in {"name", "recipe"}}
LogicalValues ==
  AdvValues \cup ItemValues \cup CatalogValues
            \cup {Logical("u", NoRegion, NoItem, "marketable")}

\* The key string the code builds for a logical value.
KeyOf(v) ==
  CASE v.ns = "adv" -> AdvKey(v.world, v.kind)
    [] v.ns = "u" /\ v.kind = "marketable" -> MarketableKey
    [] v.ns = "u" /\ v.kind # "marketable" -> ItemKey(v.world, v.item, v.kind)
    [] v.ns = "x" -> CatalogKey(v.kind, v.item)

\* Two logical values and the keys built for them.
KeyCall ==
  /\ calc.fn = "none"
  /\ \E a \in LogicalValues, b \in LogicalValues :
       calc' = [fn |-> "ns", a |-> a, b |-> b, keyA |-> KeyOf(a), keyB |-> KeyOf(b)]
  /\ UNCHANGED <<storeVars, jobVars, rdVars, clientVars>>
  /\ UNCHANGED <<adviceCfg, fb, runLog, prevLog, fan, listFetched>>

(***************************************************************************)
(* Part 9: runs of full_scan_advice that overlap.  Nothing in the job      *)
(* serialises two calls for the same region: both use the same staging     *)
(* keys and the same live keys.                                            *)
(***************************************************************************)
ConcJobs == {1, 2}

\* Entry of full_scan_advice while another call may be in progress.
StartOverlapping(j) ==
  /\ pc[j] = "idle"
  /\ \E bs \in BatchSizes, top \in StoreTops :
       /\ batchSize' = [batchSize EXCEPT ![j] = bs]
       /\ storeTop' = [storeTop EXCEPT ![j] = top]
  /\ nruns' = nruns + 1
  /\ tag' = [tag EXCEPT ![j] = nruns + 1]
  /\ before' = [before EXCEPT ![j] = Live]
  /\ pc' = [pc EXCEPT ![j] = "load"]
  /\ UNCHANGED <<ids, pos, cands, ret, failedAt>>
  /\ UNCHANGED <<storeVars, rdVars, clientVars, extVars>>

InitJobsOverlapping ==
  /\ pc = [j \in ConcJobs |-> "idle"]
  /\ ids = [j \in ConcJobs |-> << >>]
  /\ batchSize = [j \in ConcJobs |-> 1]
  /\ storeTop = [j \in ConcJobs |-> 0]
  /\ pos = [j \in ConcJobs |-> 1]
  /\ cands = [j \in ConcJobs |-> << >>]
  /\ ret = [j \in ConcJobs |-> NoInt]
  /\ tag = [j \in ConcJobs |-> 0]
  /\ nruns = 0
  /\ before = [j \in ConcJobs |-> <<Absent, Absent, NoStr, NoStr>>]
  /\ failedAt = [j \in ConcJobs |-> None]

\* Time passes between the return of get_item_world and the set_json calls of
\* refresh_items (each is an await); keys whose expiry time is reached are
\* dropped.
RefreshWait ==
  /\ fb.who = "refresh" /\ fb.pc = "await" /\ call.pc = "done"
  /\ now < MaxTime
  /\ now' = now + 1
  /\ cache' = [i \in Items |-> [l |-> Expire(cache[i].l, now + 1),
                                h |-> Expire(cache[i].h, now + 1)]]
  /\ marketable' = IF marketable.exp # NoExpiry /\ marketable.exp <= now + 1
                   THEN NoList ELSE marketable
  /\ UNCHANGED <<cfg, call, advVars, jobVars, rdVars, extVars>>

\* A provider whose listings change every second: an answer to a request sent
\* at second t carries the listings of second t.  With it, the value of a
\* cached listings key tells when it was obtained.
TimedAttempt ==
  /\ ItemAttempt
  /\ call'.fetched # NoSnap => call'.fetched.listings = now
(***************************************************************************)
(* Part 10: a batch fetch of more than MaxPerReq identifiers followed by   *)
(* the per-item fallback of its caller (_process_chunk, advice_top), both  *)
(* through the fetch client and its cache.                                 *)
(***************************************************************************)
\* A list of two chunks: item 1 fills the first, item 2 is the second.
TwoChunkLists == {[p \in 1..(MaxPerReq + 1) |-> IF p <= MaxPerReq THEN 1 ELSE 2]}
\* What the provider serves in a chunk for an identifier.
BatchSnaps == {[listings |-> 2, recentHistory |-> 0], NoSnap}
\* Calls of get_item_world that may raise during one fallback.
MaxFallbackFaults == 1

\* try: data_list = await get_items_world(chunk, world)
CallBatch ==
  /\ fb.pc = "idle" /\ call.op = "none"
  /\ \E idl \in TwoChunkLists :
       /\ call' = [IdleCall EXCEPT !.op = "get_items_world", !.pc = "attempt", !.ids = idl,
                                   !.groups = Chunks(idl, MaxPerReq),
                                   !.grp = 1, !.attempt = 1,
                                   !.out = [p \in 1..Len(idl) |-> EmptySnap],
                                   !.expect = [p \in 1..Len(idl) |-> NoSnap]]
       /\ fb' = [who |-> "batch", pc |-> "await", chunk |-> idl, dataList |-> << >>,
                 log |-> << >>, batch |-> "none", grp |-> 0, faults |-> 0, wfail |-> FALSE]
  /\ UNCHANGED <<cfg, cache, storeVars, jobVars, rdVars>>
  /\ UNCHANGED <<adviceCfg, calc, runLog, prevLog, fan, listFetched>>

\* get_items_world has returned (data_list is its result) or raised
\* (except Exception: data_list = [] and the loop over the chunk starts).
\* log keeps, per position, the snapshot the provider served in a chunk that
\* was processed; grp is the chunk that failed.
BatchOutcome ==
  /\ fb.who = "batch" /\ fb.pc = "await"
  /\ call.op = "get_items_world" /\ call.pc = "done"
  /\ call' = IdleCall
  /\ fb' = IF call.status = "ok"
           THEN [fb EXCEPT !.pc = "fetched", !.dataList = call.out, !.batch = "returned"]
           ELSE [fb EXCEPT !.pc = "fallback", !.batch = "raised", !.log = call.expect,
                           !.grp = call.grp, !.wfail = call.writeFailed]
  /\ UNCHANGED <<cfg, cache, storeVars, jobVars, rdVars>>
  /\ UNCHANGED <<adviceCfg, calc, runLog, prevLog, fan, listFetched>>

\* for iid in chunk: await get_item_world(iid, world), the call starts.
FallbackCall ==
  /\ fb.who = "batch" /\ fb.pc = "fallback" /\ call.op = "none"
  /\ call' = [IdleCall EXCEPT !.op = "get_item_world", !.pc = "read",
                              !.item = fb.chunk[Len(fb.dataList) + 1]]
  /\ UNCHANGED <<cfg, cache, storeVars, jobVars, rdVars, extVars>>

\* The steps of get_item_world inside the fallback; at most MaxFallbackFaults
\* of its calls raise.
FallbackRead ==
  /\ fb.who = "batch" /\ ItemRead
  /\ call'.status = "raise" => fb.faults < MaxFallbackFaults

FallbackAttempt ==
  /\ fb.who = "batch" /\ ItemAttempt
  /\ call'.status = "raise" => fb.faults < MaxFallbackFaults

\* data_list.append(result), or on an exception the empty snapshot; then the
\* next identifier, or the end of the loop.
FallbackTurn ==
  /\ fb.who = "batch" /\ fb.pc = "fallback"
  /\ call.op = "get_item_world" /\ call.pc = "done"
  /\ call' = IdleCall
  /\ fb' = [fb EXCEPT !.dataList = IF call.status = "raise" THEN OnItemFailure(@)
                                   ELSE Append(@, call.snap),
                      !.faults = IF call.status = "raise" THEN @ + 1 ELSE @,
                      !.pc = IF Len(fb.dataList) + 1 = Len(fb.chunk)
                             THEN "fetched" ELSE "fallback"]
  /\ UNCHANGED <<cfg, cache, storeVars, jobVars, rdVars>>
  /\ UNCHANGED <<adviceCfg, calc, runLog, prevLog, fan, listFetched>>

\* data_list is complete: the caller goes on with it.
BatchEnd ==
  /\ fb.who = "batch" /\ fb.pc = "fetched"
  /\ fb' = IdleFb
  /\ UNCHANGED <<storeVars, jobVars, rdVars, clientVars>>
  /\ UNCHANGED <<adviceCfg, calc, runLog, prevLog, fan, listFetched>>

(***************************************************************************)
(* Part 11: full_scan_advice loading its universe through                  *)
(* get_marketable_items and the cache, next to calls of the endpoint.      *)
(***************************************************************************)
\* ids = await get_marketable_items(): the call starts.
ScanCallMarketable(j) ==
  /\ pc[j] = "load" /\ fb.pc = "idle" /\ fb.who = "none" /\ call.op = "none"
  /\ call' = [IdleCall EXCEPT !.op = "get_marketable_items", !.pc = "read"]
  /\ fb' = [IdleFb EXCEPT !.who = "load"]
  /\ UNCHANGED <<cfg, cache, storeVars, jobVars, rdVars>>
  /\ UNCHANGED <<adviceCfg, calc, runLog, prevLog, fan, listFetched>>

\* The call has returned or raised.  if not ids: return 0; an exception
\* leaves full_scan_advice.
ScanLoaded(j) ==
  /\ pc[j] = "load" /\ fb.who = "load"
  /\ call.op = "get_marketable_items" /\ call.pc = "done"
  /\ call' = IdleCall
  /\ fb' = IdleFb
  /\ IF call.status = "raise"
     THEN /\ pc' = [pc EXCEPT ![j] = "failed"]
          /\ failedAt' = [failedAt EXCEPT ![j] = "load"]
          /\ UNCHANGED <<ids, batchSize, storeTop, ret>>
     ELSE LET u == call.idsRes
          IN /\ ids' = [ids EXCEPT ![j] = u]
             /\ batchSize' = [batchSize EXCEPT ![j] = IF u = << >> THEN 1 ELSE @]
             /\ storeTop' = [storeTop EXCEPT ![j] = IF u = << >> THEN 0 ELSE @]
             /\ pc' = [pc EXCEPT ![j] = IF u = << >> THEN "done" ELSE "delete"]
             /\ ret' = [ret EXCEPT ![j] = IF u = << >> THEN 0 ELSE NoInt]
             /\ UNCHANGED failedAt
  /\ UNCHANGED <<pos, cands, tag, nruns, before>>
  /\ UNCHANGED <<cfg, cache, storeVars, rdVars>>
  /\ UNCHANGED <<adviceCfg, calc, runLog, prevLog, fan, listFetched>>

\* A call of get_marketable_items by another caller (advice_top), start and end.
OtherCallMarketable == fb.who = "none" /\ CallGetMarketable
OtherCallReturn == fb.who = "none" /\ CallReturn


(***************************************************************************)
(* Specification of the scan job (runs one after the other) with a reader. *)
(***************************************************************************)
InitStore ==
  /\ scoreLive = Absent /\ dataLive = Absent
  /\ scoreTmp = Absent /\ dataTmp = Absent
  /\ tsKey = NoStr /\ countKey = NoStr
  /\ marketable = NoList
  /\ now = 0

InitJobs ==
  /\ pc = [j \in SeqJobs |-> "idle"]
  /\ ids = [j \in SeqJobs |-> << >>]
  /\ batchSize = [j \in SeqJobs |-> 1]
  /\ storeTop = [j \in SeqJobs |-> 0]
  /\ pos = [j \in SeqJobs |-> 1]
  /\ cands = [j \in SeqJobs |-> << >>]
  /\ ret = [j \in SeqJobs |-> NoInt]
  /\ tag = [j \in SeqJobs |-> 0]
  /\ nruns = 0
  /\ before = [j \in SeqJobs |-> <<Absent, Absent, NoStr, NoStr>>]
  /\ failedAt = [j \in SeqJobs |-> None]

InitReader ==
  /\ rdPc = "idle" /\ rdLimit = 0 /\ rdIds = << >> /\ rdItems = << >> /\ rdTs = NoStr

Init == InitStore /\ InitJobs /\ InitReader /\ InitClient /\ cfg = DefaultCfg /\ InitExt

Next ==
  \/ \E j \in SeqJobs : StartScan(j)
  \/ \E j \in SeqJobs : LoadUniverse(j)
  \/ \E j \in SeqJobs : DeleteTmp(j)
  \/ \E j \in SeqJobs : ProcessChunk(j)
  \/ \E j \in SeqJobs : SortCandidates(j)
  \/ \E j \in SeqJobs : ZAddTmp(j)
  \/ \E j \in SeqJobs : HSetTmp(j)
  \/ \E j \in SeqJobs : ExistsScoreTmp(j)
  \/ \E j \in SeqJobs : RenameScore(j)
  \/ \E j \in SeqJobs : ExistsDataTmp(j)
  \/ \E j \in SeqJobs : RenameData(j)
  \/ \E j \in SeqJobs : SetTs(j)
  \/ \E j \in SeqJobs : SetCount(j)
  \/ \E j \in SeqJobs : Crash(j)
  \/ ReadScore
  \/ ReadData
  \/ ReadNames
  \/ ReadTs
  \/ ReaderReturn

Spec == Init /\ [][Next]_vars

(***************************************************************************)
(* Specification of the single-item client and the tradable list, with     *)
(* time and every configuration; and of the batch client.                  *)
(***************************************************************************)
InitFetch == InitStore /\ InitJobs /\ InitReader /\ InitClient /\ cfg \in Configs /\ InitExt

NextFetch ==
  \/ CallGetItemWorld
  \/ ItemRead
  \/ ItemAttempt
  \/ CallGetMarketable
  \/ MarketRead
  \/ MarketAttempt
  \/ CallReturn
  \/ Tick

SpecFetch == InitFetch /\ [][NextFetch]_vars

\* get_items_world on short lists, with every payload format.
NextBatch ==
  \/ CallGetItemsWorld(ShortLists)
  \/ ItemsAttempt(Formats, Junks, ServedSnaps)
  \/ CallGetItemWorld
  \/ ItemRead
  \/ ItemAttempt
  \/ CallReturn

SpecBatch == InitFetch /\ [][NextBatch]_vars

\* get_items_world on lists of up to 205 identifiers, with plain payloads.
NextChunk ==
  \/ CallGetItemsWorld(LongLists)
  \/ ItemsAttempt(PlainFormats, {"none"}, PlainSnaps)
  \/ CallReturn

SpecChunk == InitFetch /\ [][NextChunk]_vars

\* compute_score on a grid of inputs, under each advice configuration.
InitScore ==
  /\ InitStore /\ InitJobs /\ InitReader /\ InitClient /\ cfg = DefaultCfg
  /\ InitAux /\ adviceCfg \in AdviceSettings

NextScore ==
  \/ ComputeScoreCall
  \/ CalcReturn

SpecScore == InitScore /\ [][NextScore]_vars

\* The fan-out points, under each advice configuration.
NextFanout ==
  \/ FanStart
  \/ \E t \in 1..3 : TaskEnter(t)
  \/ \E t \in 1..3 : TaskExit(t)
  \/ FanJoin

SpecFanout == InitScore /\ [][NextFanout]_vars

\* The scan job with its batch step in full, runs one after the other, at a
\* fixed clock.
NextScan ==
  \/ \E j \in SeqJobs : StartScan(j)
  \/ \E j \in SeqJobs : LoadUniverse(j)
  \/ \E j \in SeqJobs : DeleteTmp(j)
  \/ \E j \in SeqJobs : ScanFetch(j, ScanMarket)
  \/ FallbackItem(ScanMarket)
  \/ \E j \in SeqJobs : ScanProcess(j)
  \/ \E j \in SeqJobs : SortCandidates(j)
  \/ \E j \in SeqJobs : ZAddTmp(j)
  \/ \E j \in SeqJobs : HSetTmp(j)
  \/ \E j \in SeqJobs : ExistsScoreTmp(j)
  \/ \E j \in SeqJobs : RenameScore(j)
  \/ \E j \in SeqJobs : ExistsDataTmp(j)
  \/ \E j \in SeqJobs : RenameData(j)
  \/ \E j \in SeqJobs : SetTs(j)
  \/ \E j \in SeqJobs : SetCount(j)

SpecScan == Init /\ [][NextScan]_vars

\* The two callers of the fetch with fallback: the scan job and the advice
\* endpoint, one fetch at a time.
NextFallback ==
  \/ \E j \in SeqJobs : StartScan(j)
  \/ \E j \in SeqJobs : LoadUniverse(j)
  \/ \E j \in SeqJobs : DeleteTmp(j)
  \/ \E j \in SeqJobs : ScanFetch(j, FewMarket)
  \/ FallbackItem(FewMarket)
  \/ \E j \in SeqJobs : ScanProcess(j)
  \/ \E j \in SeqJobs : SortCandidates(j)
  \/ \E j \in SeqJobs : ZAddTmp(j)
  \/ \E j \in SeqJobs : HSetTmp(j)
  \/ \E j \in SeqJobs : ExistsScoreTmp(j)
  \/ \E j \in SeqJobs : RenameScore(j)
  \/ \E j \in SeqJobs : ExistsDataTmp(j)
  \/ \E j \in SeqJobs : RenameData(j)
  \/ \E j \in SeqJobs : SetTs(j)
  \/ \E j \in SeqJobs : SetCount(j)
  \/ AdviceFetch(FewMarket)
  \/ AdviceRespond

SpecFallback == Init /\ [][NextFallback]_vars

\* The metrics library, called at any time of the clock.
NextMetrics ==
  \/ WindowCall
  \/ TrimmedMeanCall
  \/ QuantileCall
  \/ RoiCall
  \/ CalcReturn
  \/ Tick

SpecMetrics == Init /\ [][NextMetrics]_vars

\* refresh_items, one call after the other, with time and every configuration.
NextRefresh ==
  \/ CallRefreshItems
  \/ RefreshFetch
  \/ ItemRead
  \/ ItemAttempt
  \/ RefreshStore
  \/ RefreshWait
  \/ RefreshReturn
  \/ Tick

SpecRefresh == InitFetch /\ [][NextRefresh]_vars

\* The dashboard overview, one request after the other.
NextOverview ==
  \/ OverviewStart
  \/ \E t \in 1..3 : OverviewFetch(t)
  \/ \E t \in 1..3 : OverviewFetched(t)
  \/ \E t \in 1..3 : OverviewNamed(t)
  \/ OverviewGathered
  \/ OverviewEnd

SpecOverview == Init /\ [][NextOverview]_vars

\* The keys built for pairs of logical values.
NextKeys ==
  \/ KeyCall
  \/ CalcReturn

SpecKeys == Init /\ [][NextKeys]_vars

\* Two runs of the job for one region, their awaits interleaved in any way.
InitOverlapping ==
  InitStore /\ InitJobsOverlapping /\ InitReader /\ InitClient /\ cfg = DefaultCfg /\ InitExt

NextOverlapping ==
  \/ \E j \in ConcJobs : StartOverlapping(j)
  \/ \E j \in ConcJobs : LoadUniverse(j)
  \/ \E j \in ConcJobs : DeleteTmp(j)
  \/ \E j \in ConcJobs : ProcessChunk(j)
  \/ \E j \in ConcJobs : SortCandidates(j)
  \/ \E j \in ConcJobs : ZAddTmp(j)
  \/ \E j \in ConcJobs : HSetTmp(j)
  \/ \E j \in ConcJobs : ExistsScoreTmp(j)
  \/ \E j \in ConcJobs : RenameScore(j)
  \/ \E j \in ConcJobs : ExistsDataTmp(j)
  \/ \E j \in ConcJobs : RenameData(j)
  \/ \E j \in ConcJobs : SetTs(j)
  \/ \E j \in ConcJobs : SetCount(j)

SpecOverlapping == InitOverlapping /\ [][NextOverlapping]_vars

\* refresh_items against the provider whose listings change every second.
NextFresh ==
  \/ CallRefreshItems
  \/ RefreshFetch
  \/ ItemRead
  \/ TimedAttempt
  \/ RefreshStore
  \/ RefreshWait
  \/ RefreshReturn
  \/ Tick

SpecFresh == InitFetch /\ [][NextFresh]_vars

\* The three operations of the fetch client, one call after the other, under
\* every configuration.  An attempt in progress ends: the request has a
\* timeout (httpx.Timeout(10.0)) and the wait between attempts is capped
\* (wait_exponential(max=3)); a cache read returns or raises.
ChunkedLists == {Cycle(1), Cycle(101)}

NextClient ==
  \/ CallGetItemWorld
  \/ ItemRead
  \/ ItemAttempt
  \/ CallGetItemsWorld(ChunkedLists)
  \/ ItemsAttempt(PlainFormats, {"none"}, PlainSnaps)
  \/ CallGetMarketable
  \/ MarketRead
  \/ MarketAttempt
  \/ CallReturn

SpecClientFair ==
  /\ InitFetch /\ [][NextClient]_vars
  /\ WF_vars(ItemRead) /\ WF_vars(ItemAttempt)
  /\ WF_vars(ItemsAttempt(PlainFormats, {"none"}, PlainSnaps))
  /\ WF_vars(MarketRead) /\ WF_vars(MarketAttempt)

\* A batch fetch of two chunks and the fallback of its caller; no key expires
\* meanwhile.
NextBatchFallback ==
  \/ CallBatch
  \/ ItemsAttempt(PlainFormats, {"none"}, BatchSnaps)
  \/ BatchOutcome
  \/ FallbackCall
  \/ FallbackRead
  \/ FallbackAttempt
  \/ FallbackTurn
  \/ BatchEnd

SpecBatchFallback == InitFetch /\ [][NextBatchFallback]_vars

\* The scan job with its universe loaded by get_marketable_items, calls of
\* get_marketable_items by others in between, and time passing.
NextMarketScan ==
  \/ \E j \in SeqJobs : StartScan(j)
  \/ \E j \in SeqJobs : ScanCallMarketable(j)
  \/ MarketRead
  \/ MarketAttempt
  \/ \E j \in SeqJobs : ScanLoaded(j)
  \/ \E j \in SeqJobs : DeleteTmp(j)
  \/ \E j \in SeqJobs : ProcessChunk(j)
  \/ \E j \in SeqJobs : SortCandidates(j)
  \/ \E j \in SeqJobs : ZAddTmp(j)
  \/ \E j \in SeqJobs : HSetTmp(j)
  \/ \E j \in SeqJobs : ExistsScoreTmp(j)
  \/ \E j \in SeqJobs : RenameScore(j)
  \/ \E j \in SeqJobs : ExistsDataTmp(j)
  \/ \E j \in SeqJobs : RenameData(j)
  \/ \E j \in SeqJobs : SetTs(j)
  \/ \E j \in SeqJobs : SetCount(j)
  \/ OtherCallMarketable
  \/ OtherCallReturn
  \/ Tick

SpecMarketScan == InitFetch /\ [][NextMarketScan]_vars

(***************************************************************************)
(* Claims about the publish of the RankedAdviceSet.                        *)
(***************************************************************************)
RunsOf(s) == {s[p].run : p \in 1..Len(s)}

\* C1: a reader that reads the live score index and then the live data map
\* while a run publishes gets score-index members and data entries of one and
\* the same generation, never members of one generation with data entries of
\* the other.
C1_ReaderNeverSeesMix ==
  rdPc \in {"names", "get_ts", "done"} =>
    \A a \in RunsOf(rdIds), b \in RunsOf(rdItems) : a = b

\* C2: in every reachable state every identifier of the live score index has
\* an entry in the live data map, written by the same run.
C2_LiveKeysOfSameRun ==
  \A i \in Items :
    scoreLive[i] # NoEntry =>
      /\ dataLive[i] # NoEntry
      /\ dataLive[i].run = scoreLive[i].run

\* C3: a run that has not yet performed its first rename, or that failed
\* before its first rename, has left adv:score, adv:data, adv:ts and adv:count
\* exactly as they were when it started.
C3_FailureBeforeRenameKeepsLive ==
  \A j \in DOMAIN pc :
    (pc[j] \in PreRenamePcs \/ (pc[j] = "failed" /\ failedAt[j] \in PreRenamePcs))
      => Live = before[j]

\* C3 witness: a run interrupted after it populated both staging keys, before
\* the rename, with a previously published set in the live keys.
C3_Witness ==
  /\ pc[1] = "failed" /\ failedAt[1] \in {"exists_score", "rename_score"}
  /\ Exists(scoreTmp) /\ Exists(dataTmp)
  /\ Exists(scoreLive) /\ Exists(dataLive) /\ tsKey # NoStr /\ countKey # NoStr
  /\ \E i \in Items : scoreTmp[i] # scoreLive[i]

\* C4: a run that ends with no surviving candidate leaves the live score index
\* and the live data map as they were when it started.
C4_EmptyScanKeepsLive ==
  \A j \in DOMAIN pc :
    (pc[j] = "done" /\ ret[j] = 0) =>
      (scoreLive = before[j][1] /\ dataLive = before[j][2])

\* C4 witness: a completed run over a non-empty universe in which every item
\* was skipped, after an earlier run published a set.
C4_Witness ==
  /\ pc[1] = "done" /\ ret[1] = 0
  /\ marketable.present /\ marketable.val # << >>
  /\ tsKey.run = tag[1] /\ countKey.run = tag[1]
  /\ Exists(scoreLive) /\ Exists(dataLive)

(***************************************************************************)
(* Claims about the provider client.                                       *)
(***************************************************************************)
Returned(op) == call.op = op /\ call.pc = "done" /\ call.status = "ok"
Raised(op) == call.op = op /\ call.pc = "done" /\ call.status = "raise"

\* C5: get_items_world on a non-empty identifier list, repeated identifiers
\* allowed, returns a list of the same length whose element at every index is
\* the snapshot the provider returned for the identifier at that index, in
\* whatever order the provider returns the entries.
C5_ResultAlignedWithIds ==
  Returned("get_items_world") =>
    /\ Len(call.out) = Len(call.ids)
    /\ \A p \in 1..Len(call.ids) :
         call.expect[p] # NoSnap => call.out[p] = call.expect[p]

RECURSIVE Flatten(_)
Flatten(seqs) == IF seqs = << >> THEN << >> ELSE Head(seqs) \o Flatten(Tail(seqs))

\* C6: when every provider request succeeds on its first attempt,
\* get_items_world on n identifiers issues exactly ceil(n/100) requests, each
\* of at most 100 identifiers, and the identifiers of the requests in issue
\* order, concatenated, are the input list.
C6_ChunkedRequests ==
  (Returned("get_items_world") /\ call.retriedOn = {}) =>
    /\ Len(call.reqs) = (Len(call.ids) + 99) \div 100
    /\ \A k \in 1..Len(call.reqs) : Len(call.reqs[k]) <= 100
    /\ Flatten(call.reqs) = call.ids

\* C6 witness: a call on 205 identifiers that returned after requests of 100,
\* 100 and 5 identifiers, none of them retried.
C6_Witness ==
  /\ Returned("get_items_world") /\ call.retriedOn = {}
  /\ Len(call.ids) = 205
  /\ Len(call.reqs) = 3
  /\ Len(call.reqs[1]) = 100 /\ Len(call.reqs[2]) = 100 /\ Len(call.reqs[3]) = 5

\* The expiry time of a key stored now under a TTL (a TTL of 0 stores the key
\* without expiry).
StoredUnder(v, ttl) == [val |-> v, exp |-> IF ttl > 0 THEN now + ttl ELSE NoExpiry]

\* C7: get_item_world, when the store answers its reads, is cache-aside: with
\* both keys of the item present it returns the cached pair and sends no
\* provider request; with either key absent it sends a provider request and,
\* when it returns, it has stored the listings under CACHE_TTL_SHORT and the
\* history under CACHE_TTL_LONG and returns the fetched pair.
C7_CacheAside ==
  (call.op = "get_item_world" /\ call.pc = "done" /\ ~call.readFailed) =>
    IF call.cl # NoVal /\ call.ch # NoVal
    THEN /\ call.status = "ok"
         /\ call.snap = [listings |-> call.cl, recentHistory |-> call.ch]
         /\ call.reqs = << >>
    ELSE /\ Len(call.reqs) >= 1
         /\ call.status = "ok" =>
              /\ call.fetched # NoSnap
              /\ call.snap = call.fetched
              /\ cache[call.item].l = StoredUnder(call.fetched.listings, cfg.CACHE_TTL_SHORT)
              /\ cache[call.item].h = StoredUnder(call.fetched.recentHistory, cfg.CACHE_TTL_LONG)

\* C7 witness: a call that found the listings key present and the history key
\* expired, fetched from the provider and stored the two halves under
\* different expiry times.
C7_Witness ==
  /\ Returned("get_item_world")
  /\ call.cl # NoVal /\ call.ch = NoVal
  /\ Len(call.reqs) >= 1 /\ call.fetched # NoSnap
  /\ cache[call.item].l.exp # cache[call.item].h.exp

\* The failures the retry is for: timeouts, connection failures, non-2xx statuses.
RetriedKinds == {"ReadTimeout", "ConnectTimeout", "ConnectError", "HTTPStatusError"}

\* C8: in get_item_world and get_items_world a request that fails with a
\* timeout, a connection failure or a non-2xx status is retried until it
\* succeeds or RETRY_MAX attempts were made, and then the failure propagates;
\* a failure of any other kind propagates after a single attempt.
C8_RetryPolicy ==
  call.op \in {"get_item_world", "get_items_world"} =>
    /\ (call.pc = "done" /\ call.status = "raise" /\ call.err \in RetriedKinds)
         => call.attempt >= cfg.RETRY_MAX
    /\ call.retriedOn \subseteq RetriedKinds

\* C9: in get_item_world and get_items_world a cache write that fails after
\* the provider answered does not keep the call from returning the fetched
\* data: the call neither raises the cache error nor retries.
C9_WriteFailureSwallowed ==
  /\ (call.op = "get_item_world" /\ call.pc = "done" /\ call.fetched # NoSnap) =>
       (call.status = "ok" /\ call.snap = call.fetched)
  /\ (call.op = "get_items_world" /\ call.pc = "done" /\ call.writeFailed) =>
       call.err # "CacheError"

\* C10: a cache read that fails because the store is unavailable is treated
\* by get_item_world and get_marketable_items as a miss: the call contacts the
\* provider and does not fail with the cache error.
C10_ReadFailureIsMiss ==
  (call.op \in {"get_item_world", "get_marketable_items"} /\ call.pc = "done"
     /\ call.readFailed) =>
    (Len(call.reqs) >= 1 /\ call.err # "CacheError")

\* C16: for every configuration Settings accepts, a snapshot get_item_world
\* stores gives its listings key a lifetime less than or equal to the lifetime
\* of its history key, a key stored without expiry living forever.
C16_ListingsLifetimeAtMostHistory ==
  (Returned("get_item_world") /\ call.fetched # NoSnap) =>
    LET l == cache[call.item].l
        h == cache[call.item].h
    IN \/ h.exp = NoExpiry
       \/ (l.exp # NoExpiry /\ l.exp <= h.exp)

\* C17: once get_marketable_items has fetched and stored the identifier list,
\* u:marketable holds that list without expiry, and every later call whose
\* read is answered sends no provider request and returns that list.
C17_MarketableListPersists ==
  listFetched.present =>
    /\ marketable.present /\ marketable.val = listFetched.val
    /\ marketable.exp = NoExpiry
    /\ (call.op = "get_marketable_items" /\ ~call.readFailed) =>
         /\ call.pc # "attempt"
         /\ call.pc = "done" =>
              (call.status = "ok" /\ call.idsRes = listFetched.val)

\* C17 witness: a call made after time passed since the fetch returned the
\* fetched, non-empty list and sent no provider request.
C17_Witness ==
  /\ Returned("get_marketable_items")
  /\ call.reqs = << >>
  /\ listFetched.present /\ listFetched.val # << >> /\ listFetched.at < now
  /\ call.idsRes = listFetched.val

\* C18: every fan-out point holds a semaphore sized from REQUESTS_RPS, and at
\* every instant the upstream calls in flight that the point started are at most
\* the size of that semaphore.
C18_FanOutBounded ==
  fan.point # "none" =>
    /\ fan.sem # NoSem
    /\ fan.sem <= Max(1, adviceCfg.REQUESTS_RPS \div 2)
    /\ InFlight <= fan.sem

\* C26: a malformed or unusable entry of a multi-item response (not an object,
\* no recoverable identifier, identifier not requested) is skipped and causes
\* no failure of get_items_world: when get_items_world raises, it raises a
\* failure of the request itself (transport, HTTP status, body that is not
\* JSON), never an error of the loop over the entries.
C26_MalformedEntrySkipped ==
  (call.op = "get_items_world" /\ call.status = "raise") => call.err \in ProviderErrors

\* C27: advice_top(region, limit=K) returns the K highest-scored members of
\* the published score index that have a data entry (all of them when fewer
\* than K have one), in score order: when it reads the data map of a store whose
\* score index is the one it read, the entries it keeps are the first K members,
\* in ZREVRANGE order, of the index members that have a data entry.
ItemIdsOf(s) == [p \in 1..Len(s) |-> s[p].item_id]
IndexAsRead == rdIds = Entries(scoreLive, ZRevRange(scoreLive, Max(0, rdLimit - 1)))
TopWithData(K) ==
  LET all == ZRevAll(scoreLive, Members(scoreLive) \cap Members(dataLive))
  IN SubSeq(all, 1, Min(K, Len(all)))
C27_TopKWithData ==
  [][(rdPc = "hmget" /\ rdPc' = "names" /\ IndexAsRead)
       => ItemIdsOf(rdItems') = TopWithData(rdLimit)]_vars

\* C28: refresh_items(world, items) forces a refresh: when it returns, it has
\* obtained the provider's data for every listed item, also for an item whose
\* two cache keys were present before, and it returns 2 times the number of
\* items.
RefreshReturned == fb.who = "refresh" /\ fb.pc = "done" /\ fb.status = "ok"
C28_RefreshForcesFetch ==
  RefreshReturned =>
    /\ fb.count = 2 * Len(fb.chunk)
    /\ \A k \in 1..Len(fb.chunk) :
         \E q \in 1..Len(fb.log) :
            /\ fb.log[q].item = fb.chunk[k]
            /\ fb.log[q].requests >= 1
            /\ fb.log[q].fetched # NoSnap

\* C29: the dashboard overview obtains the market data of the items it shows
\* through exactly one call of get_items_world and no per-item fetch: when it
\* responds it has called get_items_world once and get_item_world never.
C29_OverviewBatched ==
  (fan.point = "overview" /\ fan.pc = "responded") =>
    /\ fan.batchCalls = 1
    /\ fan.itemCalls = 0

\* C30: the value full_scan_advice returns equals the number of identifiers
\* the run stored in the published score index and in the published data map,
\* for every universe list, and it is 0 exactly when the run published nothing.
StoredBy(k, t) == {i \in Items : k[i] # NoEntry /\ k[i].run = t}
C30_ReturnCountsStored ==
  \A j \in SeqJobs :
    (pc[j] = "done" /\ ret[j] # NoInt) =>
      /\ ret[j] = Cardinality(StoredBy(scoreLive, tag[j]))
      /\ ret[j] = Cardinality(StoredBy(dataLive, tag[j]))
      /\ (ret[j] = 0 <=> StoredBy(scoreLive, tag[j]) \cup StoredBy(dataLive, tag[j]) = {})

(***************************************************************************)
(* Claims about the batch step and the published ranking.                  *)
(***************************************************************************)
\* C11: when get_items_world raises for a batch, the caller (the batch step of
\* the scan, the advice endpoint) calls get_item_world once for every
\* identifier of the batch, in batch order; a call that raises contributes the
\* empty snapshot, so the list the caller goes on with has the batch's length
\* and order, and the caller then processes the batch.
C11_FallbackPerItem ==
  fb.batch = "raised" =>
    /\ Len(fb.log) <= Len(fb.chunk)
    /\ Len(fb.dataList) = Len(fb.log)
    /\ \A k \in 1..Len(fb.log) :
         /\ fb.log[k].item = fb.chunk[k]
         /\ fb.dataList[k] = IF fb.log[k].snap = NoSnap THEN EmptySnap ELSE fb.log[k].snap
    /\ fb.pc = "fetched" =>
         /\ Len(fb.dataList) = Len(fb.chunk)
         /\ fb.who = "scan" => \E j \in SeqJobs : pc[j] = "scan"

\* C11 witness: a batch of two whose batch request raised; the first per-item
\* call raised too and the second returned a snapshot.
C11_Witness ==
  /\ fb.who = "scan" /\ fb.batch = "raised" /\ fb.pc = "fetched"
  /\ Len(fb.chunk) = 2
  /\ fb.log[1].snap = NoSnap /\ fb.log[2].snap \notin {NoSnap, EmptySnap}
  /\ fb.dataList = <<EmptySnap, fb.log[2].snap>>

\* The work a run has left: the awaits after the batch loop, and in the batch
\* loop the positions not yet processed and the calls of the current batch.
PcRank(p) ==
  CASE p = "load" -> 12 [] p = "delete" -> 11 [] p = "scan" -> 10 [] p = "sort" -> 9
    [] p = "zadd" -> 8 [] p = "hset" -> 7 [] p = "exists_score" -> 6
    [] p = "rename_score" -> 5 [] p = "exists_data" -> 4 [] p = "rename_data" -> 3
    [] p = "set_ts" -> 2 [] p = "set_count" -> 1 [] OTHER -> 0
WorkLeft(j, jpc, jids, jpos, f) ==
  PcRank(jpc) * 1000
  + (IF jpc = "scan"
     THEN (Len(jids) - jpos + 1) * 10
          + (CASE f.pc = "idle" -> 9 [] f.pc = "fallback" -> 8 - Len(f.log) [] OTHER -> 0)
     ELSE 0)
CanStep(j) ==
  \/ pc[j] \in ActivePcs \ {"scan"}
  \/ /\ pc[j] = "scan"
     /\ fb.pc \in {"idle", "fallback"} \/ (fb.pc = "fetched" /\ fb.who = "scan")

\* C12: with the store reachable and a non-empty universe, whatever the
\* provider's failures and the malformed items, a run never fails, is never
\* blocked, and every step it takes leaves it with less work; when it reaches
\* the sort it has fetched data for every position of the universe, batch
\* after batch.  Hence it reaches the publish step and returns.
C12_ScanRunsToCompletion ==
  /\ [](\A j \in SeqJobs :
          /\ pc[j] # "failed"
          /\ Active(j) => CanStep(j)
          /\ pc[j] \in (ActivePcs \ {"load", "delete", "scan"}) =>
               /\ runLog.tag = tag[j] /\ runLog.ids = ids[j]
               /\ Len(runLog.data) = Len(ids[j])
               /\ pos[j] = Len(ids[j]) + 1)
  /\ [][\A j \in SeqJobs :
          Active(j) => WorkLeft(j, pc[j]', ids[j]', pos[j]', fb')
                         < WorkLeft(j, pc[j], ids[j], pos[j], fb)]_vars

\* C12 witness: a run returned although a batch request raised, a per-item
\* fetch raised and an item was malformed.
C12_Witness ==
  /\ pc[1] = "done" /\ ret[1] # NoInt /\ runLog.tag = tag[1]
  /\ \E p \in 1..Len(runLog.data) : runLog.data[p] = EmptySnap
  /\ \E p \in 1..Len(runLog.data) : ItemMetrics(runLog.data[p]).stage = "raise"

\* The anti-fraud predicate on the metrics m of one fetched snapshot, with the
\* thresholds in force: (roi > ADVICE_SUSPECT_ROI and (unitsSold <
\* ADVICE_MIN_SALES_SAFE or priceCV > ADVICE_SUSPECT_CV)) or (netProfitPerUnit >
\* ADVICE_SUSPECT_ABS_PROFIT and unitsSold < ADVICE_MIN_SALES_SAFE).
Fraud(m) ==
  LET fewSales == m.sold < adviceCfg.ADVICE_MIN_SALES_SAFE
      cvLimitSq == RMul(adviceCfg.ADVICE_SUSPECT_CV, adviceCfg.ADVICE_SUSPECT_CV)
      wildPrices == m.cvSq # NoRat /\ RLt(cvLimitSq, m.cvSq)
  IN \/ RLt(adviceCfg.ADVICE_SUSPECT_ROI, m.roi) /\ (fewSales \/ wildPrices)
     \/ RLt(RInt(adviceCfg.ADVICE_SUSPECT_ABS_PROFIT), m.p_unit) /\ fewSales
\* The positions of the universe at which the run fetched data for item i.
FetchedAt(i) == {p \in 1..Len(runLog.data) : runLog.ids[p] = i}
\* Item i is a candidate on some data the run fetched for it, free of fraud.
CleanOn(i) ==
  \E p \in FetchedAt(i) :
    LET m == ItemMetrics(runLog.data[p])
    IN m.stage = "metrics" /\ ~Fraud(m)
RunReturned(j) == pc[j] = "done" /\ ret[j] # NoInt /\ runLog.tag = tag[j] /\ runLog.ids # << >>

\* C13 as stated: after any run, no candidate in the published set satisfies
\* the anti-fraud predicate on the data that run fetched for it.
C13_NoFraudInPublishedSet ==
  \A j \in SeqJobs :
    RunReturned(j) =>
      \A i \in Members(scoreLive) : FetchedAt(i) # {} => CleanOn(i)

\* C13 amended: after any run, no candidate that the run published satisfies
\* the anti-fraud predicate on the data that run fetched: every entry the run
\* put into the published set was computed from a fetched snapshot of its item
\* on which the predicate is false.  (A run without survivors publishes
\* nothing and leaves the previous set in place.)
C13_NoFraudPublishedByRun ==
  \A i \in Items :
    (scoreLive[i] # NoEntry /\ scoreLive[i].run = runLog.tag) =>
      \E p \in FetchedAt(i) :
        LET m == ItemMetrics(runLog.data[p])
        IN /\ m.stage = "metrics" /\ ~Fraud(m)
           /\ scoreLive[i].score = Fixed(ComputeScore(m.roi, m.spd, m.flags, m.ppd, m.comp).score)

\* C13 witness: a run fetched for item 1 a snapshot with roi 12.0 and 1 unit
\* sold, published item 2 and did not publish item 1.
C13_Witness ==
  /\ RunReturned(1)
  /\ \E p \in FetchedAt(1) :
       LET m == ItemMetrics(runLog.data[p])
       IN m.stage = "metrics" /\ m.roi = RInt(12) /\ m.sold = 1
  /\ scoreLive[2] # NoEntry /\ scoreLive[2].run = runLog.tag
  /\ scoreLive[1] = NoEntry

\* The scores of the run's surviving candidates of item i.
SurvivorScores(i) ==
  {runLog.survivors[p].score : p \in {q \in 1..Len(runLog.survivors) : runLog.survivors[q].item_id = i}}

\* C14: after a run with store_top = N >= 1 and at least one surviving
\* candidate, the published score index holds at most N identifiers, each put
\* there by this run with the score of one of its surviving candidates, and
\* no surviving candidate whose identifier is left out has a score strictly
\* greater than a published score.
C14_TopNPublished ==
  \A j \in SeqJobs :
    (RunReturned(j) /\ runLog.top >= 1 /\ runLog.survivors # << >>) =>
      LET pub == Members(scoreLive)
      IN /\ pub # {} /\ Cardinality(pub) <= runLog.top
         /\ \A i \in pub : /\ scoreLive[i].run = runLog.tag
                           /\ scoreLive[i].score \in SurvivorScores(i)
         /\ \A p \in 1..Len(runLog.survivors) :
              runLog.survivors[p].item_id \notin pub =>
                \A i \in pub : runLog.survivors[p].score <= scoreLive[i].score

\* C14 witness: a run with store_top = 1 had survivors of both items, the
\* second one with the strictly greater score; item 2 alone is published.
C14_Witness ==
  /\ RunReturned(1) /\ runLog.top = 1
  /\ Len(runLog.survivors) = 2
  /\ runLog.survivors[1].item_id = 1 /\ runLog.survivors[2].item_id = 2
  /\ runLog.survivors[1].score < runLog.survivors[2].score
  /\ Members(scoreLive) = {2}

\* The scores held under a key, without the mark of the run that wrote them.
ScoresOf(k) == [i \in Items |-> k[i].score]
\* The run that just returned and the one before it worked on the same
\* universe, with the same store_top, and were given the same data
\* at every position; the clock does not move in SpecScan.
SameInputsTwice(j) ==
  /\ RunReturned(j)
  /\ prevLog.tag = runLog.tag - 1
  /\ prevLog.ids = runLog.ids /\ prevLog.top = runLog.top
  /\ prevLog.data = runLog.data

RECURSIVE KeptPrices(_, _)
KeptPrices(h, cut) ==
  IF h = << >> THEN << >>
  ELSE (IF Head(h).timestamp >= cut THEN <<Head(h).pricePerUnit>> ELSE << >>)
       \o KeptPrices(Tail(h), cut)
RECURSIVE KeptUnits(_, _)
KeptUnits(h, cut) ==
  IF h = << >> THEN 0
  ELSE (IF Head(h).timestamp >= cut THEN Head(h).quantity ELSE 0) + KeptUnits(Tail(h), cut)
RECURSIVE SumSquares(_)
SumSquares(ps) == IF ps = << >> THEN 0 ELSE Head(ps) * Head(ps) + SumSquares(Tail(ps))
\* The cutoff of the call held in calc: now - d * 86400.
CallCutoff == calc.at - calc.days * 86400

\* C21: price_cv is the population standard deviation of the in-window prices
\* (sum of squared deviations divided by n, square root) divided by their
\* mean, and null with fewer than 2 in-window sales or a zero mean.  Stated on
\* the squares: cv^2 = (n * sum(x^2) - sum(x)^2) / sum(x)^2.
C21_PriceCvIsPopulation ==
  calc.fn = "window" =>
    LET ps == KeptPrices(calc.history, CallCutoff)
        n == Len(ps)
        sum == SumSeq(ps)
    IN IF n < 2 \/ sum = 0 THEN calc.cvSq = NoRat
       ELSE calc.cvSq = Rat(n * SumSquares(ps) - sum * sum, sum * sum)

\* The sum of the k lowest and of the k highest prices of a list, found by
\* taking the extreme price away k times.
RemoveOne(ps, x) ==
  LET at == CHOOSE p \in 1..Len(ps) : ps[p] = x /\ \A o \in 1..(p - 1) : ps[o] # x
  IN SubSeq(ps, 1, at - 1) \o SubSeq(ps, at + 1, Len(ps))
LowestOf(ps) == CHOOSE x \in {ps[p] : p \in 1..Len(ps)} : \A p \in 1..Len(ps) : x <= ps[p]
HighestOf(ps) == CHOOSE x \in {ps[p] : p \in 1..Len(ps)} : \A p \in 1..Len(ps) : x >= ps[p]
RECURSIVE SumLowest(_, _)
SumLowest(ps, k) ==
  IF k = 0 \/ ps = << >> THEN 0
  ELSE LowestOf(ps) + SumLowest(RemoveOne(ps, LowestOf(ps)), k - 1)
RECURSIVE SumHighest(_, _)
SumHighest(ps, k) ==
  IF k = 0 \/ ps = << >> THEN 0
  ELSE HighestOf(ps) + SumHighest(RemoveOne(ps, HighestOf(ps)), k - 1)
\* trim clamped to [0, 0.45], and floor(n * trim) for the clamped trim.
ClampedTrim(trim) ==
  IF trim.n < 0 THEN Zero ELSE IF 100 * trim.n > 45 * trim.d THEN Rat(45, 100) ELSE trim
TrimCount(n, trim) ==
  LET t == ClampedTrim(trim)
  IN CHOOSE k \in 0..n : k * t.d <= n * t.n /\ n * t.n < (k + 1) * t.d
\* The mean of what is left of a non-empty price list once floor(n * trim)
\* prices are removed at each end, the mean of the full list if nothing is left.
TrimmedExpected(ps, trim) ==
  LET n == Len(ps)
      k == TrimCount(n, trim)
  IN IF n - 2 * k >= 1
     THEN Rat(SumSeq(ps) - SumLowest(ps, k) - SumHighest(ps, k), n - 2 * k)
     ELSE Rat(SumSeq(ps), n)
\* r is the element at index round((n - 1) * q), q clamped to [0, 1], of the
\* ascending order of the non-empty price list ps: an index nearest to
\* (n - 1) * q, and the price that stands there.
IsQuantile(ps, q, r) ==
  LET n == Len(ps)
      qc == IF q.n < 0 THEN Zero ELSE IF q.n > q.d THEN One ELSE q
  IN \E idx \in 0..(n - 1) :
       /\ 2 * Abs(idx * qc.d - (n - 1) * qc.n) <= qc.d
       /\ \E p \in 1..n :
            /\ r = RInt(ps[p])
            /\ Cardinality({o \in 1..n : ps[o] < ps[p]}) <= idx
            /\ idx < Cardinality({o \in 1..n : ps[o] <= ps[p]})

\* C22: a window function called with day count d uses a sale exactly when its
\* timestamp is >= now - d * 86400: the results of avg_price,
\* trimmed_mean_price, quantile_price, price_cv, sales_per_day and units_sold
\* are the ones computed from the sales at or after the cutoff, all of them
\* and no other.
C22_WindowCutoff ==
  calc.fn = "window" =>
    LET ps == KeptPrices(calc.history, CallCutoff)
        units == KeptUnits(calc.history, CallCutoff)
        n == Len(ps)
        sum == SumSeq(ps)
    IN /\ calc.sold = units
       /\ calc.spd = Rat(units, calc.days)
       /\ calc.avg = IF n = 0 THEN NoRat ELSE Rat(sum, n)
       /\ calc.tmean = IF n = 0 THEN NoRat ELSE TrimmedExpected(ps, Rat(1, 5))
       /\ IF n = 0 THEN calc.quant = NoRat ELSE IsQuantile(ps, Rat(1, 2), calc.quant)
       /\ calc.cvSq = IF n < 2 \/ sum = 0 THEN NoRat
                      ELSE Rat(n * (n * SumSquares(ps) - sum * sum), (n - 1) * sum * sum)

\* C22 witness: a history of a sale one second before the cutoff and a sale at
\* the cutoff, of different prices; the average is the price of the second.
C22_Witness ==
  /\ calc.fn = "window" /\ Len(calc.history) = 2
  /\ calc.history[1].timestamp = CallCutoff - 1
  /\ calc.history[2].timestamp = CallCutoff
  /\ calc.history[1].pricePerUnit # calc.history[2].pricePerUnit
  /\ calc.avg = RInt(calc.history[2].pricePerUnit)
  /\ calc.sold = calc.history[2].quantity

\* The in-window prices of the history a trimmed_mean_price or quantile_price
\* call was given (every sale of a price history is recent).
CallPrices == [p \in 1..Len(calc.history) |-> calc.history[p].pricePerUnit]

\* C23: for a non-empty in-window price list of size n and any trim,
\* trimmed_mean_price clamps trim to [0, 0.45], removes floor(n * trim) prices
\* at the low end and as many at the high end of the sorted list and returns
\* the mean of the rest (of the full list if nothing is left); with trim 0.2
\* and 10 prices the 2 lowest and the 2 highest are removed.
C23_TrimmedMean ==
  (calc.fn = "trimmed_mean_price" /\ calc.history # << >>) =>
    /\ calc.result = TrimmedExpected(CallPrices, calc.trim)
    /\ (Len(calc.history) = 10 /\ calc.trim = Rat(1, 5)) =>
         calc.result = Rat(SumSeq(CallPrices) - SumLowest(CallPrices, 2)
                             - SumHighest(CallPrices, 2), 6)

\* C23 witness: trim 0.2 on the ten prices 10, 20, ..., 100 in disorder: 10,
\* 20, 90 and 100 are removed and the mean of the other six, 55, is returned.
C23_Witness ==
  /\ calc.fn = "trimmed_mean_price" /\ calc.trim = Rat(1, 5)
  /\ CallPrices = TenPrices
  /\ SumLowest(CallPrices, 2) = 30 /\ SumHighest(CallPrices, 2) = 190
  /\ calc.result = RInt(55)

\* C24: with n >= 1 in-window sales quantile_price returns the element at
\* index round((n - 1) * q), q clamped to [0, 1], of the ascending in-window
\* prices; it returns null for an empty window; and median_price(history, d)
\* equals quantile_price(history, 0.5, d).
C24_Quantile ==
  calc.fn = "quantile_price" =>
    LET ps == KeptPrices(calc.history, CallCutoff)
    IN /\ IF ps = << >> THEN calc.result = NoRat ELSE IsQuantile(ps, calc.q, calc.result)
       /\ calc.median = calc.half
       /\ calc.q = Rat(1, 2) => calc.median = calc.result

\* C24 witness: q = 0.5 on the four prices 50, 10, 90, 30: (n - 1) * q is 1.5
\* and the element at index 2 of 10, 30, 50, 90 is returned, by median_price too.
C24_Witness ==
  /\ calc.fn = "quantile_price" /\ calc.q = Rat(1, 2)
  /\ CallPrices = SubSeq(TenPrices, 1, 4)
  /\ calc.result = RInt(50) /\ calc.median = RInt(50)

\* A tax fraction clamped to [0, 1], and the sign of a float.
TaxFraction(t) == IF t.n < 0 THEN Zero ELSE IF t.n > t.d THEN One ELSE t
Sign(x) == IF x.n > 0 THEN 1 ELSE IF x.n < 0 THEN 0 - 1 ELSE 0

\* C25: roi is 0 when cost <= 0 and otherwise net_profit_unit on the same
\* arguments divided by cost * (1 + buyerTax), the tax fractions clamped to
\* [0, 1], net_profit_unit being netPrice * (1 - sellerTax) - cost * (1 +
\* buyerTax); so for cost > 0 the two have the same sign.
C25_RoiAndProfit ==
  calc.fn = "roi" =>
    LET bt == TaxFraction(calc.buyer_tax)
        st == TaxFraction(calc.seller_tax)
        loaded == RMul(calc.cost, RAdd(One, bt))
    IN /\ calc.profit = RSub(RMul(calc.net, RSub(One, st)), loaded)
       /\ IF calc.cost.n <= 0 THEN calc.roi = Zero
          ELSE /\ RMul(calc.roi, loaded) = calc.profit
               /\ Sign(calc.roi) = Sign(calc.profit)

\* C25 witness: roi(110, 100) with the default taxes is negative: 104.5 - 105
\* over 105.
C25_Witness ==
  /\ calc.fn = "roi" /\ calc.net = RInt(110) /\ calc.cost = RInt(100)
  /\ calc.buyer_tax = Rat(1, 20) /\ calc.seller_tax = Rat(1, 20)
  /\ calc.profit = Rat(0 - 1, 2) /\ calc.roi = Rat(0 - 1, 210)

(***************************************************************************)
(* Claims about the scoring engine.                                        *)
(***************************************************************************)
\* C19: compute_score returns the class "alto" exactly when the score is below
\* ADVICE_RISK_LOW, "medio" exactly when ADVICE_RISK_LOW <= score <
\* ADVICE_RISK_MED, and "basso" otherwise, with the thresholds of the
\* configuration in force.
C19_RiskClass ==
  calc.fn = "compute_score" =>
    LET low == adviceCfg.ADVICE_RISK_LOW
        med == adviceCfg.ADVICE_RISK_MED
        isAlto == RLt(calc.score, low)
        isMedio == RLe(low, calc.score) /\ RLt(calc.score, med)
    IN /\ calc.risk = "alto" <=> isAlto
       /\ calc.risk = "medio" <=> isMedio
       /\ calc.risk = "basso" <=> (~isAlto /\ ~isMedio)

\* C19 witness: a score between the two default thresholds, classed "medio".
C19_Witness ==
  /\ calc.fn = "compute_score" /\ calc.risk = "medio"
  /\ RLe(Rat(3, 10), calc.score) /\ RLt(calc.score, Rat(6, 10))

\* The score as section 4.4 of the specification writes it.
ExpectedScore(r, spd, flags, ppd, comp) ==
  LET st == adviceCfg
      penalty == RAdd(RAdd(IF "saturo" \in flags THEN st.ADVICE_PENALTY_SATURO ELSE Zero,
                           IF "instabile" \in flags THEN st.ADVICE_PENALTY_INSTABILE ELSE Zero),
                      RMul(RMin(One, Rat(comp, 10)), st.ADVICE_PENALTY_COMP))
      sum == RAdd(RAdd(RMul(Clamp01(RDiv(RAdd(r, Rat(1, 2)), Rat(3, 2))), st.ADVICE_W_ROI),
                       RMul(Clamp01(RDiv(spd, st.ADVICE_SPD_NORM)), st.ADVICE_W_SPD)),
                  RMul(Clamp01(RDiv(ppd, st.ADVICE_PPD_NORM)), st.ADVICE_W_PPD))
  IN RMax(Zero, RSub(sum, penalty))

\* C20: over the grid of roi, sales per day, profit per day, flag sets and
\* competitor counts, the score compute_score returns equals
\* max(0, normRoi*wRoi + normVelocity*wSpd + normProfitPerDay*wPpd - penalty)
\* with penalty = (saturated ? wSaturo : 0) + (unstable ? wInstabile : 0)
\* + min(1, competitorCount/10)*wComp, and is never negative.
C20_ScoreFormula ==
  calc.fn = "compute_score" =>
    /\ calc.score = ExpectedScore(calc.roi, calc.spd, calc.flags, calc.ppd, calc.comp)
    /\ RLe(Zero, calc.score)

\* C20 witness: the penalties exceed the weighted sum and the score is 0.
C20_Witness ==
  /\ calc.fn = "compute_score"
  /\ calc.score = Zero
  /\ "saturo" \in calc.flags /\ calc.comp = 15 /\ RLt(Zero, calc.spd)

(***************************************************************************)
(* Claims about the cache keys, concurrent runs, staging keys, freshness   *)
(* and termination.                                                        *)
(***************************************************************************)
\* C31: the cache key construction is injective: two different logical values
\* (namespace, region, item, kind; live, :tmp, ts and count keys included)
\* never get the same key string, whatever the two region names.
C31_KeysInjective ==
  calc.fn = "ns" => (calc.keyA = calc.keyB => calc.a = calc.b)
C31_Witness ==
  /\ calc.fn = "ns"
  /\ calc.a.ns = "adv" /\ calc.a.kind = "score:tmp" /\ calc.a.world = <<"W">>
  /\ calc.b.ns = "adv" /\ calc.b.kind = "score" /\ calc.b.world = <<"W">> \o Colon \o TxtScore
  /\ calc.keyA # calc.keyB

\* C32: once two overlapping runs of a region have both finished, the live
\* score index and the live data map hold the output of exactly one of them:
\* the same members in both keys, all written by one run.
BothFinished == \A j \in DOMAIN pc : pc[j] \in {"done", "failed"}
LiveRuns == {scoreLive[i].run : i \in Members(scoreLive)}
              \cup {dataLive[i].run : i \in Members(dataLive)}
C32_OneRunPublished ==
  (DOMAIN pc = ConcJobs /\ BothFinished) =>
    /\ Cardinality(LiveRuns) <= 1
    /\ Members(scoreLive) = Members(dataLive)

\* C33: staging keys left behind by an interrupted run are never renamed over
\* the live keys by a later run: every entry a RENAME of a run puts in a live
\* key was written to the staging key by that run.
C33_PublishesOwnEntries ==
  [][\A j \in SeqJobs :
       /\ (pc[j] = "rename_score" /\ pc'[j] = "exists_data")
            => \A i \in Members(scoreLive') : scoreLive'[i].run = tag[j]
       /\ (pc[j] = "rename_data" /\ pc'[j] = "set_ts")
            => \A i \in Members(dataLive') : dataLive'[i].run = tag[j]]_vars

\* C33 witness: the run before was interrupted between its two renames, so its
\* staged data map stayed behind; the next run has renamed its own data map,
\* which lacks an item the interrupted run had staged.
C33_Witness ==
  /\ pc[1] = "set_ts" /\ tag[1] = 2
  /\ Exists(before[1][1]) /\ before[1][2] = Absent
  /\ \A i \in Members(before[1][1]) : before[1][1][i].run = 1
  /\ Exists(dataLive) /\ \A i \in Members(dataLive) : dataLive[i].run = 2
  /\ Members(before[1][1]) \ Members(dataLive) # {}

\* C34: whenever a run overwrites adv:{region}:ts or adv:{region}:count, the
\* entries of the live score index and of the live data map were published by
\* that same run.
LiveOf(t) ==
  /\ \A i \in Members(scoreLive) : scoreLive[i].run = t
  /\ \A i \in Members(dataLive) : dataLive[i].run = t
C34_TimestampOfLiveRun ==
  [][\A j \in SeqJobs :
       ((pc[j] = "set_ts" /\ pc'[j] = "set_count") \/ (pc[j] = "set_count" /\ pc'[j] = "done"))
         => LiveOf(tag[j])]_vars

\* C35: with CACHE_TTL_SHORT > 0, listings that get_item_world returns from the
\* cache, without a provider request, were obtained from the provider at most
\* CACHE_TTL_SHORT seconds before the read.
C35_CachedListingsFresh ==
  [][(call.op = "get_item_world" /\ call.pc = "read" /\ call'.pc = "done"
        /\ call'.status = "ok" /\ cfg.CACHE_TTL_SHORT > 0)
       => now - call'.cl <= cfg.CACHE_TTL_SHORT]_vars

\* C36: every call of get_item_world, every chunk of get_items_world and every
\* call of get_marketable_items ends, returning or raising, after at most
\* max(1, RETRY_MAX) provider requests for that item, chunk or list; with
\* RETRY_MAX = 0 one request is still sent.  Each request is the attempt of
\* its number for the current chunk, the numbers of a chunk go up by one, and
\* no number exceeds the limit.
AttemptLimit == Max(1, cfg.RETRY_MAX)
ChunksReached == IF call.op = "get_items_world" THEN call.grp ELSE 1
RequestsBounded ==
  /\ call.attempt <= AttemptLimit
  /\ Len(call.reqs) <= ChunksReached * AttemptLimit
  /\ (call.pc = "done" /\ call.attempt >= 1 /\ cfg.RETRY_MAX = 0)
       => Len(call.reqs) = ChunksReached
RequestIsCountedAttempt ==
  Len(call'.reqs) > Len(call.reqs) =>
    /\ Len(call'.reqs) = Len(call.reqs) + 1
    /\ call.attempt >= 1
    /\ \/ call'.pc = "done" /\ call'.attempt = call.attempt
       \/ call'.pc = "attempt" /\ call'.grp = call.grp /\ call'.attempt = call.attempt + 1
       \/ call'.pc = "attempt" /\ call'.grp = call.grp + 1 /\ call'.attempt = 1
C36_BoundedRequestsAndTermination ==
  /\ []RequestsBounded
  /\ [][RequestIsCountedAttempt]_vars
  /\ (call.op # "none") ~> (call.pc = "done")

\* C36 witness: with RETRY_MAX = 2, get_items_world raised at its second chunk
\* after the first chunk took one request and the second took two.
C36_Witness ==
  /\ call.op = "get_items_world" /\ call.pc = "done" /\ call.status = "raise"
  /\ cfg.RETRY_MAX = 2 /\ call.grp = 2 /\ call.attempt = 2 /\ Len(call.reqs) = 3

\* C37: when get_items_world fails at a chunk after earlier chunks succeeded,
\* the snapshots the provider returned for the earlier chunks are in the cache,
\* so in the fallback get_item_world returns them from the cache without a
\* provider request, and no already-fetched item is lost or fetched twice.
\* As stated: for every store behaviour.
FallbackPos == Len(fb.dataList) + 1
AlreadyFetched(p) ==
  /\ p <= (fb.grp - 1) * MaxPerReq
  /\ fb.log[p] # NoSnap
FallbackCallDone ==
  /\ fb.who = "batch" /\ fb.pc = "fallback"
  /\ call.op = "get_item_world" /\ call.pc = "done"
  /\ AlreadyFetched(FallbackPos)
ServedFromBatch ==
  /\ call.status = "ok"
  /\ call.reqs = << >>
  /\ call.snap = fb.log[FallbackPos]
NonListStored == listFetched.present /\ listFetched.payload = "other"
EmptyListServed ==
  NonListStored =>
    /\ marketable = [present |-> TRUE, val |-> << >>, exp |-> NoExpiry]
    /\ (call.op = "get_marketable_items" /\ ~call.readFailed) =>
         /\ call.pc # "attempt"
         /\ call.pc = "done" => (call.status = "ok" /\ call.idsRes = << >>)
LeavesLoad(j) == pc[j] = "load" /\ pc'[j] # "load"
RunReturnsZero ==
  \A j \in SeqJobs :
    (NonListStored /\ LeavesLoad(j)) =>
      /\ \/ pc'[j] = "done" /\ ret'[j] = 0
         \/ pc'[j] = "failed" /\ call.readFailed
      /\ UNCHANGED advVars
C38_NonListPayloadStopsScans == []EmptyListServed /\ [][RunReturnsZero]_vars

\* C38 witness: time has passed since a non-list payload was stored, and the
\* second run since then has returned 0 from the cached empty list.
C38_Witness ==
  /\ NonListStored /\ listFetched.at < now
  /\ nruns = 2 /\ \E j \in SeqJobs : pc[j] = "done" /\ ret[j] = 0 /\ tag[j] = 2

====
